---- MODULE Spec2Model ----
(***************************************************************************)
(* Timeline viewer: the granularity state machine (rescale /               *)
(* updateScaleTypeByWidth), the grid construction of Timeline.draw and the *)
(* row packing of SwimLane.setUpTimePeriods.                               *)
(*                                                                         *)
(* Pixel lengths are held in thirds of a pixel, so that the reset width    *)
(* 200/12 px of the year -> month transition is the integer 50.            *)
(* Dates are JavaScript Date values in local time (no daylight saving),    *)
(* held as the record of their calendar fields.                            *)
(***************************************************************************)
EXTENDS Integers, Sequences, FiniteSets, TLC

Px(n) == 3 * n

Abs(a) == IF a < 0 THEN -a ELSE a

Max(a, b) == IF a >= b THEN a ELSE b

\* ------------------------------------------------------------------------
\* JavaScript Date
\* ------------------------------------------------------------------------

MsPerDay == 24 * 60 * 60 * 1000

\* days since 1970-01-01 of day `date` of month mp (0 = March) of year
\* era * 400 + yoe
DaysOfEra(era, yoe, mp, date) ==
    era * 146097 + yoe * 365 + (yoe \div 4) - (yoe \div 100) + ((153 * mp + 2) \div 5)
        - 719468 + (date - 1)

\* the same for month mp of the year y that starts in March
DaysOfMarchYear(y, mp, date) == DaysOfEra(y \div 400, y % 400, mp, date)

\* the same for month mn (0 = January) of year ym
DaysOfYearMonth(ym, mn, date) ==
    DaysOfMarchYear(IF mn < 2 THEN ym - 1 ELSE ym, (mn + 10) % 12, date)

\* day number (days since 1970-01-01) of the first day of month `month`
\* (any integer, 0 = January of `year`) plus date - 1: ECMAScript MakeDay
MakeDay(year, month, date) == DaysOfYearMonth(year + (month \div 12), month % 12, date)

\* ECMAScript MakeTime
MakeTime(hours, minutes, seconds, ms) ==
    hours * 3600000 + minutes * 60000 + seconds * 1000 + ms

\* the fields of a Date: year y0 counted from March, month m (0 = January),
\* day d of the month, t milliseconds into the day
DateFields(y0, m, d, t) ==
    [year |-> y0 + (IF m < 2 THEN 1 ELSE 0), month |-> m, date |-> d,
     hours   |-> t \div 3600000,
     minutes |-> (t % 3600000) \div 60000,
     seconds |-> (t % 60000) \div 1000,
     ms      |-> t % 1000]

\* the Date of day doy (0 = 1 March) in month mp (0 = March) of a year
DateOfMonth(y0, doy, mp, t) ==
    DateFields(y0, IF mp < 10 THEN mp + 2 ELSE mp - 10, doy - ((153 * mp + 2) \div 5) + 1, t)

\* the Date of day doy (0 = 1 March) of a year
DateOfDayOfYear(y0, doy, t) == DateOfMonth(y0, doy, (5 * doy + 2) \div 153, t)

\* the Date of day doe of year yoe of a 400 year era
DateOfYearOfEra(era, doe, yoe, t) ==
    DateOfDayOfYear(yoe + era * 400, doe - (365 * yoe + (yoe \div 4) - (yoe \div 100)), t)

\* the Date of day doe of a 400 year era
DateOfDayOfEra(era, doe, t) ==
    DateOfYearOfEra(era, doe,
                    (doe - (doe \div 1460) + (doe \div 36524) - (doe \div 146096)) \div 365, t)

\* the Date of day z counted from 0000-03-01
DateOfDay(z, t) == DateOfDayOfEra(z \div 146097, z % 146097, t)

\* the Date whose time value is day * MsPerDay + time (time any integer):
\* ECMAScript MakeDate followed by the field getters
MakeDate(day, time) == DateOfDay(day + (time \div MsPerDay) + 719468, time % MsPerDay)

TimeWithinDay(d) == MakeTime(d.hours, d.minutes, d.seconds, d.ms)

setFullYear(d, year) == MakeDate(MakeDay(year, d.month, d.date), TimeWithinDay(d))

setMonth(d, month) == MakeDate(MakeDay(d.year, month, d.date), TimeWithinDay(d))

setDate(d, date) == MakeDate(MakeDay(d.year, d.month, date), TimeWithinDay(d))

setHours(d, hours) ==
    MakeDate(MakeDay(d.year, d.month, d.date), MakeTime(hours, d.minutes, d.seconds, d.ms))

setMinutes(d, minutes) ==
    MakeDate(MakeDay(d.year, d.month, d.date), MakeTime(d.hours, minutes, d.seconds, d.ms))

setSeconds(d, seconds) ==
    MakeDate(MakeDay(d.year, d.month, d.date), MakeTime(d.hours, d.minutes, seconds, d.ms))

setMilliseconds(d, ms) ==
    MakeDate(MakeDay(d.year, d.month, d.date), MakeTime(d.hours, d.minutes, d.seconds, ms))

\* a - b < 0 for two Dates (the comparator of lineDateArr.sort): the time
\* values compare as the calendar fields do, most significant first
DateBefore(a, b) ==
    IF a.year # b.year THEN a.year < b.year
    ELSE IF a.month # b.month THEN a.month < b.month
    ELSE IF a.date # b.date THEN a.date < b.date
    ELSE TimeWithinDay(a) < TimeWithinDay(b)

\* Math.floor(year / unit) * unit
FloorTo(year, unit) == (year \div unit) * unit

\* newDate.setMonth(newDate.getMonth() + increment)
addMonths(d, increment) == setMonth(d, d.month + increment)

\* newDate.setDate(newDate.getDate() + increment)
addDates(d, increment) == setDate(d, d.date + increment)

\* newDate.setHours(newDate.getHours() + increment)
addHours(d, increment) == setHours(d, d.hours + increment)

\* newDate.setMinutes(newDate.getMinutes() + increment)
addMinutes(d, increment) == setMinutes(d, d.minutes + increment)

\* newDate.setSeconds(newDate.getSeconds() + increment)
addSeconds(d, increment) == setSeconds(d, d.seconds + increment)

\* Math.trunc(year / unit) * unit
TruncTo(year, unit) ==
    IF year < 0 THEN 0 - ((0 - year) \div unit) * unit ELSE (year \div unit) * unit

\* incrementDateByScaleType rounding the year toward zero
incrementDateByScaleTypeTruncating(oldDate, scaleType, increment) ==
    CASE scaleType = "millennium" ->
           setMonth(setFullYear(oldDate, TruncTo(oldDate.year + increment * 1000, 1000)), 0)
      [] scaleType = "century" ->
           setMonth(setFullYear(oldDate, TruncTo(oldDate.year + increment * 100, 100)), 0)
      [] scaleType = "decade" ->
           setMonth(setFullYear(oldDate, TruncTo(oldDate.year + increment * 10, 10)), 0)
      [] scaleType = "year" ->
           setMonth(setFullYear(oldDate, oldDate.year + increment), 0)
      [] scaleType = "month" ->
           addMonths(setMilliseconds(setSeconds(setMinutes(setHours(setDate(oldDate, 1), 0), 0), 0), 0),
                     increment)
      [] scaleType = "date" ->
           addDates(setMilliseconds(setSeconds(setMinutes(setHours(oldDate, 0), 0), 0), 0),
                    increment)
      [] scaleType = "hour" ->
           addHours(setMilliseconds(setSeconds(setMinutes(oldDate, 0), 0), 0), increment)
      [] scaleType = "minute" ->
           addMinutes(setMilliseconds(setSeconds(oldDate, 0), 0), increment)
      [] scaleType = "second" ->
           addSeconds(setMilliseconds(oldDate, 0), increment)
      [] scaleType = "millisecond" ->
           setMilliseconds(oldDate, oldDate.ms + increment)
      [] OTHER -> oldDate

incrementDateByScaleType(oldDate, scaleType, increment) ==
    CASE scaleType = "millennium" ->
           setMonth(setFullYear(oldDate, FloorTo(oldDate.year + increment * 1000, 1000)), 0)
      [] scaleType = "century" ->
           setMonth(setFullYear(oldDate, FloorTo(oldDate.year + increment * 100, 100)), 0)
      [] scaleType = "decade" ->
           setMonth(setFullYear(oldDate, FloorTo(oldDate.year + increment * 10, 10)), 0)
      [] scaleType = "year" ->
           setMonth(setFullYear(oldDate, oldDate.year + increment), 0)
      [] scaleType = "month" ->
           addMonths(setMilliseconds(setSeconds(setMinutes(setHours(setDate(oldDate, 1), 0), 0), 0), 0),
                     increment)
      [] scaleType = "date" ->
           addDates(setMilliseconds(setSeconds(setMinutes(setHours(oldDate, 0), 0), 0), 0),
                    increment)
      [] scaleType = "hour" ->
           addHours(setMilliseconds(setSeconds(setMinutes(oldDate, 0), 0), 0), increment)
      [] scaleType = "minute" ->
           addMinutes(setMilliseconds(setSeconds(oldDate, 0), 0), increment)
      [] scaleType = "second" ->
           addSeconds(setMilliseconds(oldDate, 0), increment)
      [] scaleType = "millisecond" ->
           setMilliseconds(oldDate, oldDate.ms + increment)
      [] OTHER -> oldDate

\* the outcome of a call: an Error is thrown, or a value is returned
Thrown == [threw |-> TRUE, value |-> "Error"]

Returned(value) == [threw |-> FALSE, value |-> value]

\* the scale types accepted by setScaleType and getFocusDateAsValue
AcceptedScaleTypes ==
    {"millennium", "century", "decade", "year", "month", "date", "hour", "minute",
     "second", "millisecond"}

getFocusDateAsValue(date, scaleType) ==
    IF scaleType \notin AcceptedScaleTypes THEN Thrown
    ELSE Returned(CASE scaleType \in {"millennium", "century", "decade", "year"} -> date.year
                    [] scaleType = "month" -> date.month
                    [] scaleType = "date" -> date.date
                    [] scaleType = "hour" -> date.hours
                    [] scaleType = "minute" -> date.minutes
                    [] scaleType = "second" -> date.seconds
                    [] scaleType = "millisecond" -> date.ms)

\* a baseline label: the empty string, or a number
Blank == [blank |-> TRUE, value |-> 0]

Label(value) == [blank |-> FALSE, value |-> value]

\* the years of one unit of the four coarse scale types
YearsOf(scaleType) ==
    CASE scaleType = "millennium" -> 1000
      [] scaleType = "century" -> 100
      [] scaleType = "decade" -> 10
      [] scaleType = "year" -> 1

\* #getBaselineLabel: every which unit is labelled at this scale width, for
\* the four coarse scale types
LabelledEvery(scaleWidth) ==
    IF scaleWidth < Px(20) THEN 10
    ELSE IF scaleWidth < Px(50) THEN 5
    ELSE IF scaleWidth < Px(100) THEN 2
    ELSE 1

\* #getBaselineLabel: the tests of a field of a fine scale type at a narrow
\* scale width
fieldSuppressed(field, scaleWidth, narrow, wide) ==
    IF scaleWidth < Px(20) THEN field % narrow # 0 /\ field # 0
    ELSE IF scaleWidth < Px(50) THEN field % wide # 0 /\ field # 0
    ELSE FALSE

\* #getBaselineLabel: the label is set to "" by the block of the scale type
suppressed(date, scaleType, scaleWidth) ==
    CASE scaleType \in {"millennium", "century", "decade", "year"} ->
             date.year % (YearsOf(scaleType) * LabelledEvery(scaleWidth)) # 0
      [] scaleType = "month" -> date.month # 0
      [] scaleType = "date" ->
             /\ scaleWidth < Px(50)
             /\ (date.date % 5 # 0 /\ date.date # 1) \/ date.date = 30
      [] scaleType = "hour" -> fieldSuppressed(date.hours, scaleWidth, 6, 2)
      [] scaleType = "minute" -> fieldSuppressed(date.minutes, scaleWidth, 10, 5)
      [] scaleType = "second" -> fieldSuppressed(date.seconds, scaleWidth, 10, 5)
      [] scaleType = "millisecond" -> fieldSuppressed(date.ms, scaleWidth, 10, 5)

\* #getBaselineLabel: the blocks that follow the year 0 test, applied to label
labelOfBlocks(label, date, scaleType, scaleWidth) ==
    IF suppressed(date, scaleType, scaleWidth) THEN Blank
    ELSE IF scaleType = "month" THEN Label(date.year)
    ELSE label

\* #getBaselineLabel without the year 0 test
getBaselineLabelKeepingYearZero(date, scaleType, scaleWidth) ==
    labelOfBlocks(Label(getFocusDateAsValue(date, scaleType).value), date, scaleType,
                  scaleWidth)

\* Timeline.#getBaselineLabel
getBaselineLabel(date, scaleType, scaleWidth) ==
    labelOfBlocks(IF scaleType \in {"millennium", "century", "decade"} /\ date.year = 0
                  THEN Blank
                  ELSE Label(getFocusDateAsValue(date, scaleType).value),
                  date, scaleType, scaleWidth)

\* Timeline.setScaleType: the outcome; the value returned is the new #scaleType
setScaleType(scaleType) ==
    IF scaleType \notin AcceptedScaleTypes THEN Thrown ELSE Returned(scaleType)

\* a JavaScript number that is an integer, or NaN
Num(n) == [nan |-> FALSE, n |-> n]

NaN == [nan |-> TRUE, n |-> 0]

\* Number(text) for the texts between the dashes of a date string: digits
\* give their value, the empty text gives 0, any other text gives NaN
Number(text) ==
    CASE text = "" -> Num(0)
      [] text = "00" -> Num(0)
      [] text = "01" -> Num(1)
      [] text = "02" -> Num(2)
      [] text = "13" -> Num(13)
      [] text = "29" -> Num(29)
      [] text = "31" -> Num(31)
      [] text = "59" -> Num(59)
      [] text = "999" -> Num(999)
      [] text = "0044" -> Num(44)
      [] text = "2004" -> Num(2004)
      [] OTHER -> NaN

\* a Date whose time value is NaN (Invalid Date); no Date has day 0
InvalidDate ==
    [year |-> 0, month |-> 0, date |-> 0, hours |-> 0, minutes |-> 0, seconds |-> 0,
     ms |-> 0]

\* date.setX(value), where newDate is the Date the setter gives for a number:
\* a NaN argument and a NaN time value give Invalid Date
dateSet(d, value, newDate) ==
    IF d = InvalidDate \/ value.nan THEN InvalidDate ELSE newDate

\* if(value) date.setX(value): NaN, 0 and undefined are skipped
dateSetIf(d, value, newDate) ==
    IF value.nan \/ value.n = 0 THEN d ELSE dateSet(d, value, newDate)

\* element i of dateStr.split("-").map(Number); undefined, as a number NaN,
\* past the last element
numberAt(fields, i) == IF i \in DOMAIN fields THEN Number(fields[i]) ELSE NaN

\* Timeline.#parseDate; a date string is held as whether it starts with "-"
\* and the texts between the dashes of the rest
parseDate(dateStr) ==
    LET yearMultiplier == IF dateStr.minus THEN -1 ELSE 1
        year   == numberAt(dateStr.fields, 1)
        month  == numberAt(dateStr.fields, 2)
        day    == numberAt(dateStr.fields, 3)
        hour   == numberAt(dateStr.fields, 4)
        minute == numberAt(dateStr.fields, 5)
        second == numberAt(dateStr.fields, 6)
        ms     == numberAt(dateStr.fields, 7)
        date0  == [year |-> 1899, month |-> 11, date |-> 31, hours |-> 0, minutes |-> 0,
                   seconds |-> 0, ms |-> 0]
        date1  == dateSet(date0, year, setFullYear(date0, year.n * yearMultiplier))
        date2  == dateSet(date1, month, setMonth(date1, month.n))
        date3  == dateSet(date2, day, setDate(date2, day.n))
        date4  == dateSetIf(date3, hour, setHours(date3, hour.n))
        date5  == dateSetIf(date4, minute, setMinutes(date4, minute.n))
        date6  == dateSetIf(date5, second, setSeconds(date5, second.n))
    IN  Returned(dateSetIf(date6, ms, setMilliseconds(date6, ms.n)))

\* ------------------------------------------------------------------------
\* State
\* ------------------------------------------------------------------------

VARIABLES
    scaleType,      \* Timeline.#scaleType
    scaleWidth,     \* Timeline.#scaleWidth, in thirds of a pixel
    focusX,         \* Timeline.#focusX
    focusDate,      \* Timeline.#focusDate
    canvasWidth,    \* Timeline.#canvasWidth (device pixel ratio 1)
    linePosArr,     \* Timeline.#linePosArr
    lineDateArr,    \* Timeline.#lineDateArr
    swimLaneArr,    \* Timeline.#swimLaneArr
    zoom,           \* direction * rescaleSpeed of the zoom button held down, 0 when none
    zoomInterval,   \* "none", or the timer of the held button: "waiting" or "due"
    lastOp,         \* the operation that ran last
    pre,            \* what the last rescale call saw and chose
    ops,            \* number of rescale and pan calls so far
    calculated,     \* the last call of TimePeriod.#calculateX: its date and its result
    yOffset,        \* Timeline.#yOffset
    hoverSelection, \* what the last Timeline.updateMouseState call returned
    returned,       \* the last call of a function of the library: its arguments and outcome
    mouseEvents     \* the variables of setupMouseEvents and the animation frame queue

vars == <<scaleType, scaleWidth, focusX, focusDate, canvasWidth, linePosArr,
          lineDateArr, swimLaneArr, zoom, zoomInterval, lastOp, pre, ops, calculated,
          yOffset, hoverSelection, returned, mouseEvents>>

ScaleTypes ==
    <<"millennium", "century", "decade", "year", "month", "date", "hour",
      "minute", "second", "millisecond">>

validScaleTypes == {ScaleTypes[i] : i \in DOMAIN ScaleTypes}

\* position of a scale type in the order millennium < ... < millisecond
Level(t) == CHOOSE i \in DOMAIN ScaleTypes : ScaleTypes[i] = t

\* ------------------------------------------------------------------------
\* Timeline.updateScaleTypeByWidth: ten blocks run one after the other on
\* s = [t |-> scale type, w |-> scale width]
\* ------------------------------------------------------------------------

\* the millennium block without its lower clamp
millenniumBlockNoClamp(s, rescaleSpeed) ==
    IF s.t # "millennium" THEN s
    ELSE IF s.w > Px(200) THEN [t |-> "century", w |-> Px(20) + rescaleSpeed]
    ELSE s

millenniumBlock(s, rescaleSpeed) ==
    IF s.t # "millennium" THEN s
    ELSE IF s.w > Px(200) THEN [t |-> "century", w |-> Px(20) + rescaleSpeed]
    ELSE IF s.w < Px(20) THEN [t |-> "millennium", w |-> Px(20)]
    ELSE s

\* the century block leaving the width as it is when it moves to decade
centuryBlockKeepsWidth(s, rescaleSpeed) ==
    IF s.t # "century" THEN s
    ELSE IF s.w > Px(200) THEN [t |-> "decade", w |-> s.w]
    ELSE IF s.w < Px(20) THEN [t |-> "millennium", w |-> Px(200) - rescaleSpeed]
    ELSE s

centuryBlock(s, rescaleSpeed) ==
    IF s.t # "century" THEN s
    ELSE IF s.w > Px(200) THEN [t |-> "decade", w |-> Px(20) + rescaleSpeed]
    ELSE IF s.w < Px(20) THEN [t |-> "millennium", w |-> Px(200) - rescaleSpeed]
    ELSE s

\* the decade block clamping at its lower bound as the millennium block does
decadeBlockClamps(s, rescaleSpeed) ==
    IF s.t # "decade" THEN s
    ELSE IF s.w > Px(200) THEN [t |-> "year", w |-> Px(20) + rescaleSpeed]
    ELSE IF s.w < Px(20) THEN [t |-> "decade", w |-> Px(20)]
    ELSE s

decadeBlock(s, rescaleSpeed) ==
    IF s.t # "decade" THEN s
    ELSE IF s.w > Px(200) THEN [t |-> "year", w |-> Px(20) + rescaleSpeed]
    ELSE IF s.w < Px(20) THEN [t |-> "century", w |-> Px(200) - rescaleSpeed]
    ELSE s

\* the year block entering month at a twelfth of 200 without the speed added
yearBlockNoSpeed(s, rescaleSpeed) ==
    IF s.t # "year" THEN s
    ELSE IF s.w > Px(200) THEN [t |-> "month", w |-> Px(200) \div 12]
    ELSE IF s.w < Px(20) THEN [t |-> "decade", w |-> Px(200) - rescaleSpeed]
    ELSE s

yearBlock(s, rescaleSpeed) ==
    IF s.t # "year" THEN s
    ELSE IF s.w > Px(200) THEN [t |-> "month", w |-> (Px(200) \div 12) + rescaleSpeed]
    ELSE IF s.w < Px(20) THEN [t |-> "decade", w |-> Px(200) - rescaleSpeed]
    ELSE s

monthBlock(s, rescaleSpeed) ==
    IF s.t # "month" THEN s
    ELSE IF s.w > Px(200) THEN [t |-> "date", w |-> Px(10)]
    ELSE IF s.w < Px(20) THEN [t |-> "year", w |-> Px(200) - rescaleSpeed]
    ELSE s

dateBlock(s, rescaleSpeed) ==
    IF s.t # "date" THEN s
    ELSE IF s.w > Px(200) THEN [t |-> "hour", w |-> Px(10)]
    ELSE IF s.w < Px(10) THEN [t |-> "month", w |-> Px(200)]
    ELSE s

hourBlock(s, rescaleSpeed) ==
    IF s.t # "hour" THEN s
    ELSE IF s.w > Px(200) THEN [t |-> "minute", w |-> Px(5)]
    ELSE IF s.w < Px(10) THEN [t |-> "date", w |-> Px(200)]
    ELSE s

minuteBlock(s, rescaleSpeed) ==
    IF s.t # "minute" THEN s
    ELSE IF s.w > Px(200) THEN [t |-> "second", w |-> Px(5)]
    ELSE IF s.w < Px(5) THEN [t |-> "hour", w |-> Px(200)]
    ELSE s

secondBlock(s, rescaleSpeed) ==
    IF s.t # "second" THEN s
    ELSE IF s.w > Px(200) THEN [t |-> "millisecond", w |-> Px(5)]
    ELSE IF s.w < Px(5) THEN [t |-> "minute", w |-> Px(200)]
    ELSE s

\* the millisecond block testing the width it was given instead of forcing 4
millisecondBlockTestsWidth(s, rescaleSpeed) ==
    IF s.t # "millisecond" THEN s
    ELSE IF s.w < Px(5) THEN [t |-> "second", w |-> Px(200)]
    ELSE s

millisecondBlock(s, rescaleSpeed) ==
    IF s.t # "millisecond" THEN s
    ELSE LET w4 == Px(4)
         IN  IF w4 < Px(5) THEN [t |-> "second", w |-> Px(200)]
             ELSE [t |-> "millisecond", w |-> w4]

updateScaleTypeByWidth(s, rescaleSpeed) ==
    LET s1 == millenniumBlock(s, rescaleSpeed)
        s2 == centuryBlock(s1, rescaleSpeed)
        s3 == decadeBlock(s2, rescaleSpeed)
        s4 == yearBlock(s3, rescaleSpeed)
        s5 == monthBlock(s4, rescaleSpeed)
        s6 == dateBlock(s5, rescaleSpeed)
        s7 == hourBlock(s6, rescaleSpeed)
        s8 == minuteBlock(s7, rescaleSpeed)
        s9 == secondBlock(s8, rescaleSpeed)
    IN  millisecondBlock(s9, rescaleSpeed)

\* ------------------------------------------------------------------------
\* Timeline.rescale
\* ------------------------------------------------------------------------

\* the loop of rescale never replacing its first candidate
closestIndexFirst(posArr, mouseX) == 1

\* the loop of rescale over #linePosArr: index of the first line at the least
\* distance from mouseX (a later line replaces it only when strictly closer)
closestIndex(posArr, mouseX) ==
    CHOOSE i \in DOMAIN posArr :
        /\ \A j \in DOMAIN posArr : Abs(posArr[i] - mouseX) <= Abs(posArr[j] - mouseX)
        /\ \A j \in 1..(i - 1) : Abs(posArr[j] - mouseX) > Abs(posArr[i] - mouseX)

\* rescale without the re-anchoring of the focus point
rescaledNoAnchor(v, rescaleSpeed, mouseX) ==
    LET s == updateScaleTypeByWidth([t |-> v.scaleType, w |-> v.scaleWidth + rescaleSpeed],
                                    rescaleSpeed)
    IN  [v EXCEPT !.scaleWidth = s.w, !.scaleType = s.t]

\* the view state after rescale(rescaleSpeed, mouseX) on view state v
rescaled(v, rescaleSpeed, mouseX) ==
    LET ci == closestIndex(v.linePosArr, mouseX)
        s  == updateScaleTypeByWidth([t |-> v.scaleType, w |-> v.scaleWidth + rescaleSpeed],
                                     rescaleSpeed)
    IN  [v EXCEPT !.scaleWidth = s.w,
                  !.scaleType  = s.t,
                  !.focusX     = v.linePosArr[ci],
                  !.focusDate  = v.lineDateArr[ci]]

\* ------------------------------------------------------------------------
\* Timeline.draw: grid construction
\* ------------------------------------------------------------------------

RECURSIVE linesAboveFocusAfterFocus(_, _, _)
\* the first while loop starting one unit right of the focus point
linesAboveFocusAfterFocus(v, curGridLineX, n) ==
    IF curGridLineX < v.canvasWidth
    THEN LET x == v.focusX + (n + 1) * v.scaleWidth
         IN  <<[pos |-> x, date |-> incrementDateByScaleType(v.focusDate, v.scaleType, n + 1)]>>
             \o linesAboveFocusAfterFocus(v, x, n + 1)
    ELSE << >>

RECURSIVE linesAboveFocus(_, _, _)
\* the first while loop of draw: the lines at and right of the focus point
linesAboveFocus(v, curGridLineX, n) ==
    IF curGridLineX < v.canvasWidth
    THEN LET x == v.focusX + n * v.scaleWidth
         IN  <<[pos |-> x, date |-> incrementDateByScaleType(v.focusDate, v.scaleType, n)]>>
             \o linesAboveFocus(v, x, n + 1)
    ELSE << >>

RECURSIVE linesBelowFocusInside(_, _, _)
\* the second while loop stopping at the last line right of x = 0
linesBelowFocusInside(v, curGridLineX, n) ==
    IF curGridLineX - v.scaleWidth > 0
    THEN LET x == v.focusX - (n + 1) * v.scaleWidth
         IN  <<[pos |-> x, date |-> incrementDateByScaleType(v.focusDate, v.scaleType, -(n + 1))]>>
             \o linesBelowFocusInside(v, x, n + 1)
    ELSE << >>

RECURSIVE linesBelowFocusFromFocus(_, _, _)
\* the second while loop starting at the focus point itself
linesBelowFocusFromFocus(v, curGridLineX, n) ==
    IF curGridLineX > 0
    THEN LET x == v.focusX - n * v.scaleWidth
         IN  <<[pos |-> x, date |-> incrementDateByScaleType(v.focusDate, v.scaleType, -n)]>>
             \o linesBelowFocusFromFocus(v, x, n + 1)
    ELSE << >>

RECURSIVE linesBelowFocus(_, _, _)
\* the second while loop of draw: the lines left of the focus point
linesBelowFocus(v, curGridLineX, n) ==
    IF curGridLineX > 0
    THEN LET x == v.focusX - (n + 1) * v.scaleWidth
         IN  <<[pos |-> x, date |-> incrementDateByScaleType(v.focusDate, v.scaleType, -(n + 1))]>>
             \o linesBelowFocus(v, x, n + 1)
    ELSE << >>

RECURSIVE sortNumbers(_)
\* Array.prototype.sort((a, b) => a - b) on numbers
sortNumbers(s) ==
    IF Len(s) <= 1 THEN s
    ELSE LET rest == sortNumbers(Tail(s))
             x    == Head(s)
             k    == Cardinality({i \in DOMAIN rest : rest[i] < x})
         IN  SubSeq(rest, 1, k) \o <<x>> \o SubSeq(rest, k + 1, Len(rest))

RECURSIVE sortDates(_)
\* Array.prototype.sort((a, b) => a - b) on Dates
sortDates(s) ==
    IF Len(s) <= 1 THEN s
    ELSE LET rest == sortDates(Tail(s))
             x    == Head(s)
             k    == Cardinality({i \in DOMAIN rest : DateBefore(rest[i], x)})
         IN  SubSeq(rest, 1, k) \o <<x>> \o SubSeq(rest, k + 1, Len(rest))

\* the lines pushed by the two loops, the lines of year 0 left out below decade
gridLinesSkippingYearZero(v) ==
    SelectSeq(linesAboveFocus(v, 0, 0) \o linesBelowFocus(v, v.canvasWidth, 0),
              LAMBDA l : v.scaleType \in {"millennium", "century", "decade"} \/ l.date.year # 0)

\* the lines pushed by the two loops, in push order
gridLines(v) == linesAboveFocus(v, 0, 0) \o linesBelowFocus(v, v.canvasWidth, 0)

\* ------------------------------------------------------------------------
\* TimePeriod.setupCoordinates and SwimLane.setUpTimePeriods
\*
\* A period is a record; calcStartX and calcEndX are the values #calculateX
\* returns for its start and end date against the current grid, nameWidth is
\* ctx.measureText(name).width.
\* ------------------------------------------------------------------------

RECURSIVE GCD(_, _)
GCD(a, b) == IF b = 0 THEN a ELSE GCD(b, a % b)

Real(whole, num, den) == [int |-> whole + num \div den, num |-> num % den, den |-> den]

NotANumber == [int |-> 0, num |-> 0, den |-> 0]

getDaysInMonth(date) == MakeDay(date.year, date.month + 1, 1) - MakeDay(date.year, date.month, 1)

getCalendarDayDifference(date1, date2) ==
    MakeDay(date2.year, date2.month, date2.date) - MakeDay(date1.year, date1.month, date1.date)

\* date2 - date1 in milliseconds
DateDifference(date1, date2) ==
    getCalendarDayDifference(date1, date2) * MsPerDay + TimeWithinDay(date2) - TimeWithinDay(date1)

getGridWidthUnits(startDate, endDate, type) ==
    CASE type = "month"  -> (endDate.year * 12 + endDate.month) - (startDate.year * 12 + startDate.month)
      [] type = "date"   -> endDate.date - startDate.date
      [] type = "hour"   -> endDate.hours - startDate.hours
      [] type = "minute" -> endDate.minutes - startDate.minutes
      [] type = "second" -> endDate.seconds - startDate.seconds
      [] OTHER           -> endDate.year - startDate.year

\* the last branch of #calculateX, pixelsPerUnit = gridWidthPixels / gridWidthUnits:
\* x = timelineStartX + deltaYear * pixelsPerUnit + month * pixelsPerUnit / 12
\*     + date * pixelsPerUnit / 365
calculateYearX(timelineStartX, gridWidthPixels, gridWidthUnits, deltaYear, d) ==
    IF gridWidthUnits = 0 THEN NotANumber
    ELSE Real(timelineStartX,
              (gridWidthPixels \div GCD(gridWidthPixels, gridWidthUnits))
                  * (deltaYear * 12 * 365 + d.month * 365 + d.date * 12),
              (gridWidthUnits \div GCD(gridWidthPixels, gridWidthUnits)) * 12 * 365)

calculateXFrom(timelineStartX, timelineStartDate, timelineEndX, timelineEndDate, type, width, d) ==
    CASE type = "month" ->
            Real(timelineStartX
                    + ((d.year - timelineStartDate.year) * 12) * width
                    + (d.month - timelineStartDate.month) * width,
                 d.date * width * 24 + d.hours * width * getDaysInMonth(d),
                 getDaysInMonth(d) * 24)
      [] type = "date" ->
            Real(timelineStartX + getCalendarDayDifference(timelineStartDate, d) * width,
                 d.hours * width, 24)
      [] type = "hour" ->
            Real(timelineStartX
                    + getCalendarDayDifference(timelineStartDate, d) * 24 * width
                    + (d.hours - timelineStartDate.hours) * width,
                 d.minutes * width, 60)
      [] type = "minute" ->
            Real(timelineStartX, DateDifference(timelineStartDate, d) * width, 60000)
      [] type = "second" ->
            Real(timelineStartX, DateDifference(timelineStartDate, d) * width, 1000)
      [] OTHER ->
            calculateYearX(timelineStartX, timelineEndX - timelineStartX,
                           getGridWidthUnits(timelineStartDate, timelineEndDate, type),
                           d.year - timelineStartDate.year, d)

calculateX(v, dateForConversion) ==
    calculateXFrom(v.linePosArr[1], v.lineDateArr[1],
                   v.linePosArr[Len(v.linePosArr)], v.lineDateArr[Len(v.lineDateArr)],
                   v.scaleType, v.scaleWidth, dateForConversion)

\* the value #calculateX returns for a date of a period: computed against the
\* grid for a period that is given by its dates, to the third of a pixel below
\* it, and the given value otherwise
calculatedX(p, date, given, v) ==
    IF p.dated THEN calculateX(v, date).int ELSE given

\* setupCoordinates with the bar width as the bounding width
setupCoordinatesBarOnly(p, v) ==
    LET x1       == calculatedX(p, p.startDate, p.calcStartX, v)
        x        == IF x1 < Px(-1000) THEN Px(-1000) ELSE x1
        endX     == calculatedX(p, p.endDate, p.calcEndX, v)
        width0   == endX - x
        maxEndX  == v.canvasWidth + Px(1000)
        width1   == IF x > 0 /\ x < v.canvasWidth /\ endX > maxEndX
                    THEN v.canvasWidth - x + Px(1000)
                    ELSE width0
        width2   == IF width1 > v.canvasWidth * 2 THEN v.canvasWidth * 2 ELSE width1
        textWidth == p.nameWidth + Px(2) * 2
    IN  [p EXCEPT !.x = x,
                  !.endX = endX,
                  !.width = width2,
                  !.textWidth = textWidth,
                  !.boundingWidth = width2,
                  !.boundingHeight = Px(15) * 2 + Px(2) * 2]

setupCoordinates(p, v) ==
    LET x1       == calculatedX(p, p.startDate, p.calcStartX, v)
        x        == IF x1 < Px(-1000) THEN Px(-1000) ELSE x1
        endX     == calculatedX(p, p.endDate, p.calcEndX, v)
        width0   == endX - x
        maxEndX  == v.canvasWidth + Px(1000)
        width1   == IF x > 0 /\ x < v.canvasWidth /\ endX > maxEndX
                    THEN v.canvasWidth - x + Px(1000)
                    ELSE width0
        width2   == IF width1 > v.canvasWidth * 2 THEN v.canvasWidth * 2 ELSE width1
        textWidth == p.nameWidth + Px(2) * 2
    IN  [p EXCEPT !.x = x,
                  !.endX = endX,
                  !.width = width2,
                  !.textWidth = textWidth,
                  !.boundingWidth = Max(width2, textWidth),
                  !.boundingHeight = Px(15) * 2 + Px(2) * 2]

getStartX(p) == p.x

\* the end of the bar, not of the bounding box
getEndOfBar(p) == p.x + p.width

getBoundingEndX(p) == p.x + p.boundingWidth

RECURSIVE fittingRowStrict(_, _, _, _)
\* the row search with the while condition curStartX <= prevEndXInCurRow
fittingRowStrict(row, periods, curStartX, curRow) ==
    IF curRow > Len(row) THEN curRow
    ELSE IF curStartX <= getBoundingEndX(periods[row[curRow][Len(row[curRow])]])
         THEN fittingRowStrict(row, periods, curStartX, curRow + 1)
         ELSE curRow

RECURSIVE fittingRow(_, _, _, _)
\* the row search of setUpTimePeriods for a period starting at curStartX:
\* the first row whose last period ends at or before curStartX, or
\* Len(row) + 1 when there is none
fittingRow(row, periods, curStartX, curRow) ==
    IF curRow > Len(row) THEN curRow
    ELSE LET prevPeriodIndexInCurRow == row[curRow][Len(row[curRow])]
             prevEndXInCurRow == getBoundingEndX(periods[prevPeriodIndexInCurRow])
         IN  IF curStartX < prevEndXInCurRow
             THEN fittingRow(row, periods, curStartX, curRow + 1)
             ELSE curRow

RECURSIVE placePeriods(_, _, _)
\* the for loop of setUpTimePeriods from period i on (indices from 1)
placePeriods(row, periods, i) ==
    IF i > Len(periods) THEN row
    ELSE LET curRow == fittingRow(row, periods, getStartX(periods[i]), 1)
             row1   == IF curRow > Len(row)
                       THEN Append(row, <<i>>)
                       ELSE [row EXCEPT ![curRow] = Append(@, i)]
         IN  placePeriods(row1, periods, i + 1)

\* setUpTimePeriods without the two margins in the lane height
setUpTimePeriodsNoMargin(lane, v) ==
    IF lane.isHidden \/ Len(lane.timePeriodArr) = 0 THEN lane
    ELSE LET periods == [i \in DOMAIN lane.timePeriodArr |->
                            setupCoordinates(lane.timePeriodArr[i], v)]
             row     == placePeriods(<< <<1>> >>, periods, 2)
             rowHeight == periods[1].boundingHeight
         IN  [lane EXCEPT !.timePeriodArr = periods,
                          !.row = row,
                          !.rowHeight = rowHeight,
                          !.height = Max(Px(200), Len(row) * rowHeight)]

\* setUpTimePeriods with the first index pushed before the test for an empty
\* list
setUpTimePeriodsPushingFirst(lane, v) ==
    IF lane.isHidden THEN lane
    ELSE IF Len(lane.timePeriodArr) = 0 THEN [lane EXCEPT !.row = << <<1>> >>]
    ELSE LET periods == [i \in DOMAIN lane.timePeriodArr |->
                            setupCoordinates(lane.timePeriodArr[i], v)]
             row     == placePeriods(<< <<1>> >>, periods, 2)
             rowHeight == periods[1].boundingHeight
         IN  [lane EXCEPT !.timePeriodArr = periods,
                          !.row = row,
                          !.rowHeight = rowHeight,
                          !.height = Max(Px(200), Px(5) * 2 + Len(row) * rowHeight)]

\* setUpTimePeriods with the for loop starting at the first period
setUpTimePeriodsPlacingFirstAgain(lane, v) ==
    IF lane.isHidden \/ Len(lane.timePeriodArr) = 0 THEN lane
    ELSE LET periods == [i \in DOMAIN lane.timePeriodArr |->
                            setupCoordinates(lane.timePeriodArr[i], v)]
             row     == placePeriods(<< <<1>> >>, periods, 1)
             rowHeight == periods[1].boundingHeight
         IN  [lane EXCEPT !.timePeriodArr = periods,
                          !.row = row,
                          !.rowHeight = rowHeight,
                          !.height = Max(Px(200), Px(5) * 2 + Len(row) * rowHeight)]

\* setUpTimePeriods without the reset of #row
setUpTimePeriodsKeepingRows(lane, v) ==
    IF lane.isHidden \/ Len(lane.timePeriodArr) = 0 THEN lane
    ELSE LET periods == [i \in DOMAIN lane.timePeriodArr |->
                            setupCoordinates(lane.timePeriodArr[i], v)]
             row     == placePeriods([lane.row EXCEPT ![1] = Append(@, 1)], periods, 2)
             rowHeight == periods[1].boundingHeight
         IN  [lane EXCEPT !.timePeriodArr = periods,
                          !.row = row,
                          !.rowHeight = rowHeight,
                          !.height = Max(Px(200), Px(5) * 2 + Len(row) * rowHeight)]

setUpTimePeriods(lane, v) ==
    IF lane.isHidden \/ Len(lane.timePeriodArr) = 0 THEN lane
    ELSE LET periods == [i \in DOMAIN lane.timePeriodArr |->
                            setupCoordinates(lane.timePeriodArr[i], v)]
             row     == placePeriods(<< <<1>> >>, periods, 2)
             rowHeight == periods[1].boundingHeight
         IN  [lane EXCEPT !.timePeriodArr = periods,
                          !.row = row,
                          !.rowHeight = rowHeight,
                          !.height = Max(Px(200), Px(5) * 2 + Len(row) * rowHeight)]

\* the row of lane that holds period i
RowOf(lane, i) == CHOOSE r \in DOMAIN lane.row : \E k \in DOMAIN lane.row[r] : lane.row[r][k] = i

\* SwimLane.getHeight
getHeight(lane) == IF lane.isHidden THEN 0 ELSE lane.height

\* drawBackground remembering the top of the lane as its bottom
drawBackgroundAtTop(lane, y) ==
    IF lane.isHidden THEN lane ELSE [lane EXCEPT !.bottomY = y]

\* SwimLane.drawBackground(ctx, y): the lane remembers its bottom
drawBackground(lane, y) ==
    IF lane.isHidden THEN lane ELSE [lane EXCEPT !.bottomY = y + lane.height]

\* the canvas is 500 px high; the baseline takes the lowest 120 px
canvasHeight == Px(500)

baseLineHeight == Px(120)

RECURSIVE drawBackgroundsFrom(_, _, _, _)
RECURSIVE drawBackgroundOf(_, _, _, _, _)

\* lane i, laid out to lane, is drawn above y and the loop goes on
drawBackgroundOf(v, lanes, i, y, lane) ==
    drawBackgroundsFrom(v, [lanes EXCEPT ![i] = drawBackground(lane, y - getHeight(lane))],
                        i - 1, y - getHeight(lane))

\* the loop of SwimLane.drawBackgrounds from lane i down to the first lane
\* (indices from 1), y the top of the lanes drawn so far: a hidden lane is
\* skipped, a visible lane is laid out, y moves up by its height and the lane
\* is drawn at y
drawBackgroundsFrom(v, lanes, i, y) ==
    IF i = 0 THEN lanes
    ELSE IF lanes[i].isHidden THEN drawBackgroundsFrom(v, lanes, i - 1, y)
    ELSE drawBackgroundOf(v, lanes, i, y, setUpTimePeriods(lanes[i], v))

\* SwimLane.drawBackgrounds, called with y = #yOffset + #canvasHeight - #baseLineHeight
drawBackgrounds(v, lanes) ==
    drawBackgroundsFrom(v, lanes, Len(lanes), v.yOffset + canvasHeight - baseLineHeight)

\* TimePeriod.draw(ctx, y): the top of the bounding box (the #y written by
\* setupCoordinates earlier in the pass is overwritten here)
periodDrawn(p, y) == [p EXCEPT !.y = y - p.boundingHeight]

\* drawTimePeriods drawing every row at the y of the first row
drawTimePeriodsInFirstRow(lane) ==
    IF lane.isHidden \/ Len(lane.timePeriodArr) = 0 THEN lane
    ELSE [lane EXCEPT !.timePeriodArr =
             [i \in DOMAIN lane.timePeriodArr |->
                 periodDrawn(lane.timePeriodArr[i], lane.bottomY - Px(5))]]

\* SwimLane.drawTimePeriods: the periods of row r are drawn at
\* y = #bottomY - #margin - r * #rowHeight (r from 0)
drawTimePeriods(lane) ==
    IF lane.isHidden \/ Len(lane.timePeriodArr) = 0 THEN lane
    ELSE [lane EXCEPT !.timePeriodArr =
             [i \in DOMAIN lane.timePeriodArr |->
                 periodDrawn(lane.timePeriodArr[i],
                             lane.bottomY - Px(5) - (RowOf(lane, i) - 1) * lane.rowHeight)]]

\* SwimLane.drawForegrounds
drawForegrounds(lanes) == [i \in DOMAIN lanes |-> drawTimePeriods(lanes[i])]

\* draw with the clamp testing scaleWidth <= 0 only
clampedWidthOnlyNonPositive(v) == [v EXCEPT !.scaleWidth = IF @ <= 0 THEN Px(1) ELSE @]

\* draw: a scale width below 1 becomes 1
clampedWidth(v) == [v EXCEPT !.scaleWidth = IF @ < Px(1) THEN Px(1) ELSE @]

\* draw: the positions and the dates of the lines g, each array sorted
withGridLines(v, g) ==
    [v EXCEPT !.linePosArr  = sortNumbers([i \in DOMAIN g |-> g[i].pos]),
              !.lineDateArr = sortDates([i \in DOMAIN g |-> g[i].date])]

\* draw: the grid is rebuilt around the focus point
withGrid(v) == withGridLines(v, gridLines(v))

\* draw: the lanes are laid out against the new grid
withLanes(v) == [v EXCEPT !.swimLaneArr = drawForegrounds(drawBackgrounds(v, v.swimLaneArr))]

\* the view state after draw(canvas) on view state v
drawn(v) == withLanes(withGrid(clampedWidth(v)))

\* updateMouseState returns "": no period is under the cursor
NoSelection == [lane |-> 0, period |-> 0, mouseX |-> 0, mouseY |-> 0]

\* moveVertical moving the focus point as well
movedVerticalAndHorizontal(v, verticalScrollSpeed) ==
    [v EXCEPT !.yOffset = @ + verticalScrollSpeed, !.focusX = @ + verticalScrollSpeed]

\* Timeline.moveVertical
movedVertical(v, verticalScrollSpeed) ==
    [v EXCEPT !.yOffset = @ + verticalScrollSpeed]

\* TimePeriod.updateMouseState: the cursor is inside the bounding box
cursorIsInBoundingBox(p, mouseX, mouseY) ==
    /\ p.x < mouseX
    /\ mouseX < p.x + p.boundingWidth
    /\ p.y < mouseY
    /\ mouseY < p.y + p.boundingHeight

\* TimePeriod.updateMouseState: the bounding box is shown while the cursor is in it
periodMouseState(p, mouseX, mouseY) ==
    [p EXCEPT !.boundingBoxVisible = cursorIsInBoundingBox(p, mouseX, mouseY)]

\* Timeline.updateMouseState: the periods of the visible lanes after the call
mouseStateUpdated(lanes, mouseX, mouseY) ==
    [l \in DOMAIN lanes |->
        IF lanes[l].isHidden THEN lanes[l]
        ELSE [lanes[l] EXCEPT !.timePeriodArr =
                 [j \in DOMAIN lanes[l].timePeriodArr |->
                     periodMouseState(lanes[l].timePeriodArr[j], mouseX, mouseY)]]]

\* the loop of updateMouseState testing the periods of hidden lanes too
hoverMatchesInAnyLane(lanes, mouseX, mouseY) ==
    {m \in UNION {{<<l, j>> : j \in DOMAIN lanes[l].timePeriodArr} : l \in DOMAIN lanes} :
        cursorIsInBoundingBox(lanes[m[1]].timePeriodArr[m[2]], mouseX, mouseY)}

\* Timeline.updateMouseState: the (lane, period) pairs for which matchFound is set
hoverMatches(lanes, mouseX, mouseY) ==
    {m \in UNION {{<<l, j>> : j \in DOMAIN lanes[l].timePeriodArr} : l \in DOMAIN lanes} :
        /\ ~lanes[m[1]].isHidden
        /\ cursorIsInBoundingBox(lanes[m[1]].timePeriodArr[m[2]], mouseX, mouseY)}

\* the last pair of matches in loop order
lastMatch(matches) ==
    CHOOSE m \in matches :
        \A o \in matches : o[1] < m[1] \/ (o[1] = m[1] /\ o[2] <= m[2])

\* Timeline.updateMouseState: the period named by the returned hoverSelection
hoverSelected(matches, mouseX, mouseY) ==
    IF matches = {} THEN [NoSelection EXCEPT !.mouseX = mouseX, !.mouseY = mouseY]
    ELSE [lane |-> lastMatch(matches)[1], period |-> lastMatch(matches)[2],
          mouseX |-> mouseX, mouseY |-> mouseY]

\* Timeline.moveHorizontal
movedHorizontal(v, horizontalScrollSpeed) ==
    [v EXCEPT !.focusX = @ + horizontalScrollSpeed]

\* ------------------------------------------------------------------------
\* Bounds and inputs
\* ------------------------------------------------------------------------

\* half the width of the canvas, in pixels
HalfCanvasPx == 20

\* number of rescale and pan calls followed from a loaded document
MaxOps == 2

\* longest list of periods of a lane
MaxPeriods == 3

CanvasWidth == Px(2 * HalfCanvasPx)

Date0(y, mo, d, h, mi, sec, msec) ==
    [year |-> y, month |-> mo, date |-> d, hours |-> h, minutes |-> mi,
     seconds |-> sec, ms |-> msec]

\* focus points (focusDate, focusX in pixels) of loaded documents
LoadFocus ==
    { <<Date0(2000, 0, 1, 0, 0, 0, 0), 25>>,
      <<Date0(2004, 1, 29, 13, 59, 58, 999), -20>>,
      <<Date0(-1, 11, 31, 23, 59, 59, 999), 50>> }

\* scaleWidth values of loaded documents, in pixels
LoadWidths == {5, 10, 20, 200, 500}

\* rescaleSpeed values: the application uses 10 px, smaller steps are small deltas
RescaleSpeeds == {Px(-10), Px(3), Px(10)}

\* zoom pivots: the mouse before it moves (-1), the canvas centre, mouse positions
MouseXs == {Px(-1), CanvasWidth \div 2, Px(7)}

\* horizontal pans of the application: one wheel or key step, a short drag
PanSpeeds == {Px(-50), Px(4)}

NoDate == Date0(0, 0, 1, 0, 0, 0, 0)

NoRescale ==
    [scaleType |-> "none", scaleWidth |-> 0, x |-> 0, date |-> NoDate,
     spacing |-> 0, mouseX |-> 0, rescaleSpeed |-> 0, panned |-> 0]

\* ------------------------------------------------------------------------
\* Specification
\* ------------------------------------------------------------------------

View ==
    [scaleType |-> scaleType, scaleWidth |-> scaleWidth, focusX |-> focusX,
     focusDate |-> focusDate, canvasWidth |-> canvasWidth,
     linePosArr |-> linePosArr, lineDateArr |-> lineDateArr,
     swimLaneArr |-> swimLaneArr, yOffset |-> yOffset]

SetView(v) ==
    /\ scaleType' = v.scaleType
    /\ scaleWidth' = v.scaleWidth
    /\ focusX' = v.focusX
    /\ focusDate' = v.focusDate
    /\ canvasWidth' = v.canvasWidth
    /\ linePosArr' = v.linePosArr
    /\ lineDateArr' = v.lineDateArr
    /\ swimLaneArr' = v.swimLaneArr
    /\ yOffset' = v.yOffset

\* index of the grid line nearest to mouseX, the leftmost one of two at the
\* same distance
NearestLine(posArr, mouseX) ==
    CHOOSE i \in DOMAIN posArr :
        \A j \in DOMAIN posArr :
            \/ Abs(posArr[i] - mouseX) < Abs(posArr[j] - mouseX)
            \/ Abs(posArr[i] - mouseX) = Abs(posArr[j] - mouseX) /\ i <= j

\* the grid line of view state v that carries its focus point: the line the
\* last rescale took the focus date from, else the line the last draw put at
\* the focus point (0 before the first draw)
FocusLine(v) ==
    LET taken == {i \in DOMAIN v.lineDateArr : v.lineDateArr[i] = v.focusDate}
        built == {i \in DOMAIN v.lineDateArr :
                    v.lineDateArr[i] =
                        incrementDateByScaleType(v.focusDate, v.scaleType, 0)}
    IN  IF taken # {} THEN CHOOSE i \in taken : TRUE
        ELSE IF built # {} THEN CHOOSE i \in built : TRUE
        ELSE 0

\* how far moveHorizontal calls have moved the focus point of view state v
\* off its grid line since the grid was built
Panned(v) ==
    IF FocusLine(v) = 0 THEN 0 ELSE v.focusX - v.linePosArr[FocusLine(v)]

\* what a rescale call on view state v saw: the scale, the grid line nearest
\* to the pivot, the spacing of the grid and the distance panned
Snapshot(v, rescaleSpeed, mouseX) ==
    LET ni == NearestLine(v.linePosArr, mouseX)
    IN  [scaleType |-> v.scaleType, scaleWidth |-> v.scaleWidth,
         x |-> v.linePosArr[ni], date |-> v.lineDateArr[ni],
         spacing |-> v.linePosArr[2] - v.linePosArr[1],
         mouseX |-> mouseX, rescaleSpeed |-> rescaleSpeed, panned |-> Panned(v)]

\* no call of #calculateX yet
NoCalculation == [line |-> 0, date |-> NoDate, x |-> [int |-> 0, num |-> 0, den |-> 1]]

\* no function of the library was called yet
NoCall == [op |-> "none"]

\* setupMouseEvents as it returns: no mouse position yet, no drag, no redraw
\* scheduled, nothing hovered over; frames is the number of callbacks waiting
\* in the animation frame queue, didChange the flag of the last handler run,
\* changes the number of changes since the last callback ran and redrawn the
\* number of changes the last callback found
NoMouseEvents ==
    [mouseX |-> Px(-1), mouseY |-> Px(-1), isDragging |-> FALSE,
     dragStart |-> [x |-> 0, y |-> 0], drawScheduled |-> FALSE,
     lastHover |-> <<0, 0>>, frames |-> 0, didChange |-> FALSE,
     changes |-> 0, redrawn |-> 0]

\* Timeline.load, as initializeTimeline leaves the timeline (no grid yet)
Loaded(types, widths, focus) ==
    /\ scaleType \in types
    /\ scaleWidth \in {Px(w) : w \in widths}
    /\ \E f \in focus : focusDate = f[1] /\ focusX = Px(f[2])
    /\ canvasWidth = CanvasWidth
    /\ linePosArr = << >>
    /\ lineDateArr = << >>
    /\ lastOp = "load"
    /\ pre = NoRescale
    /\ ops = 0
    /\ calculated = NoCalculation
    /\ yOffset = 0
    /\ hoverSelection = NoSelection
    /\ returned = NoCall
    /\ mouseEvents = NoMouseEvents

Init ==
    /\ Loaded(validScaleTypes, LoadWidths, LoadFocus)
    /\ swimLaneArr = << >>
    /\ zoom = 0
    /\ zoomInterval = "none"

\* setupCanvas attaches the event handlers after the first draw
HandlersAttached == lastOp # "load"

draw ==
    /\ SetView(drawn(View))
    /\ lastOp' = IF lastOp \in {"rescale", "rescale+draw"} THEN "rescale+draw" ELSE "draw"
    /\ pre' = IF lastOp \in {"rescale", "rescale+draw"} THEN pre ELSE NoRescale
    /\ UNCHANGED <<zoom, zoomInterval, ops, calculated, hoverSelection, returned, mouseEvents>>

rescale(rescaleSpeed, mouseX) ==
    /\ HandlersAttached
    /\ ops < MaxOps
    /\ SetView(rescaled(View, rescaleSpeed, mouseX))
    /\ lastOp' = "rescale"
    /\ pre' = Snapshot(View, rescaleSpeed, mouseX)
    /\ ops' = ops + 1
    /\ UNCHANGED <<zoom, zoomInterval, calculated, hoverSelection, returned, mouseEvents>>

moveHorizontal(horizontalScrollSpeed) ==
    /\ HandlersAttached
    /\ ops < MaxOps
    /\ SetView(movedHorizontal(View, horizontalScrollSpeed))
    /\ lastOp' = "pan"
    /\ pre' = NoRescale
    /\ ops' = ops + 1
    /\ UNCHANGED <<zoom, zoomInterval, calculated, hoverSelection, returned, mouseEvents>>

Next ==
    \/ draw
    \/ \E rescaleSpeed \in RescaleSpeeds, mouseX \in MouseXs : rescale(rescaleSpeed, mouseX)
    \/ \E horizontalScrollSpeed \in PanSpeeds : moveHorizontal(horizontalScrollSpeed)

Spec == Init /\ [][Next]_vars

\* ------------------------------------------------------------------------
\* A zoom button held down (setupZoomButtons): the interval callback calls
\* rescale(direction * rescaleSpeed, centerPoint) and draw, again and again
\* ------------------------------------------------------------------------

\* deltas of a held button: the application's 10, and smaller ones around 10/3
ZoomSpeeds == {Px(-10), Px(-3), Px(3), Px(10) \div 3, Px(4), Px(10)}

ZoomWidths == {20, 200}

ZoomFocus == { <<Date0(2003, 1, 28, 13, 59, 58, 999), 25>> }

InitZoom ==
    /\ Loaded(validScaleTypes, ZoomWidths, ZoomFocus)
    /\ swimLaneArr = << >>
    /\ zoom \in ZoomSpeeds
    /\ zoomInterval = "none"

\* the draw of setupCanvas, before the handlers are attached
firstDraw == lastOp = "load" /\ draw

\* rescale(direction * rescaleSpeed, centerPoint) and draw(canvas), as
\* startZooming and the interval callback call them
zoomOnce ==
    /\ SetView(drawn(rescaled(View, zoom, canvasWidth \div 2)))
    /\ lastOp' = "rescale+draw"
    /\ pre' = Snapshot(View, zoom, canvasWidth \div 2)
    /\ UNCHANGED <<zoom, ops, calculated, hoverSelection, returned, mouseEvents>>

\* mousedown on a zoom button: the initial zoom, and the timer is set
startZooming ==
    /\ HandlersAttached
    /\ zoomInterval = "none"
    /\ zoomOnce
    /\ zoomInterval' = "waiting"

\* the timer of the held button runs out
intervalElapses ==
    /\ zoomInterval = "waiting"
    /\ zoomInterval' = "due"
    /\ UNCHANGED <<scaleType, scaleWidth, focusX, focusDate, canvasWidth, linePosArr,
                   lineDateArr, swimLaneArr, zoom, lastOp, pre, ops, calculated,
                   yOffset, hoverSelection, returned, mouseEvents>>

\* the interval callback
zoomStep ==
    /\ zoomInterval = "due"
    /\ zoomOnce
    /\ zoomInterval' = "waiting"

NextZoom == firstDraw \/ startZooming \/ intervalElapses \/ zoomStep

\* the button is pressed and held: the timer keeps running out, and a handler
\* that is due runs (every step that is due is enabled, so its weak fairness
\* is that the timer is waiting again and again)
SpecZoom ==
    /\ InitZoom /\ [][NextZoom]_vars
    /\ WF_vars(intervalElapses)
    /\ []<>(zoomInterval = "waiting")

\* ------------------------------------------------------------------------
\* Layout of one lane: the periods of the lane with every pixel geometry
\* ------------------------------------------------------------------------

PeriodInput(calcStartX, calcEndX, nameWidth) ==
    [calcStartX |-> Px(calcStartX), calcEndX |-> Px(calcEndX), nameWidth |-> Px(nameWidth),
     x |-> 0, endX |-> 0, width |-> 0, textWidth |-> 0, boundingWidth |-> 0,
     boundingHeight |-> 0, y |-> 0, boundingBoxVisible |-> FALSE,
     dated |-> FALSE, startDate |-> NoDate, endDate |-> NoDate]

\* a period given by its dates
DatedPeriod(startDate, endDate, nameWidth) ==
    [PeriodInput(0, 0, nameWidth) EXCEPT !.dated = TRUE, !.startDate = startDate,
                                         !.endDate = endDate]

\* periods by (calculateX of start, calculateX of end, label width), in pixels
PeriodInputs ==
    { PeriodInput(0, 40, 0),        \* a bar from 0 to 40
      PeriodInput(10, 20, 0),       \* nested in the first
      PeriodInput(10, 12, 26),      \* a short bar with a label wider than the bar
      PeriodInput(40, 60, 0),       \* starts where the first ends
      PeriodInput(30, 25, 0),       \* ends before it starts
      PeriodInput(-1500, -1400, 0), \* far left of the grid
      PeriodInput(20, 1500, 0),     \* ends far right of the grid
      PeriodInput(-3, 14, 0) }

NewLane(periods) ==
    [isHidden |-> FALSE, timePeriodArr |-> periods, row |-> << << >> >>,
     rowHeight |-> 0, height |-> Px(200), bottomY |-> 0]

InitPack ==
    /\ Loaded({"year"}, {100}, { <<Date0(2000, 0, 1, 0, 0, 0, 0), 25>> })
    /\ \E n \in 1..MaxPeriods : \E periods \in [1..n -> PeriodInputs] :
          swimLaneArr = <<NewLane(periods)>>
    /\ zoom = 0
    /\ zoomInterval = "none"

NextPack == draw

SpecPack == InitPack /\ [][NextPack]_vars

\* ------------------------------------------------------------------------
\* Properties of rescale and updateScaleTypeByWidth
\* ------------------------------------------------------------------------

\* the lower bound of the unit width tested by the block of scale type t
MinWidth(t) ==
    IF t \in {"millennium", "century", "decade", "year", "month"} THEN Px(20)
    ELSE IF t \in {"date", "hour"} THEN Px(10)
    ELSE Px(5)

\* the upper bound of the unit width tested by every block
MaxWidth == Px(200)

AfterRescale == lastOp = "rescale"

AfterRescaleAndDraw == lastOp = "rescale+draw"

\* C2: after every rescale call the unit width lies inside the range of the
\* granularity then in force: at least MinWidth of it and at most 200.
WidthInRangeAfterRescale ==
    AfterRescale => (MinWidth(scaleType) <= scaleWidth /\ scaleWidth <= MaxWidth)

\* C5: one rescale call with |delta| <= 10 leaves the granularity where it was
\* or moves it to an adjacent one, whatever the unit width was.
AtMostOneLevel ==
    AfterRescale =>
        /\ Abs(pre.rescaleSpeed) <= Px(10)
        /\ Abs(Level(scaleType) - Level(pre.scaleType)) <= 1

\* a rescale call that changed the granularity from a unit width outside the
\* range of the old granularity
LevelChangedFromOutOfRange ==
    /\ AfterRescale
    /\ Abs(Level(scaleType) - Level(pre.scaleType)) = 1
    /\ pre.scaleWidth > Px(200) + Px(10)

\* C6: at millennium a rescale with a negative delta keeps the granularity, and
\* a unit width that would fall below 20 becomes exactly 20.
MillenniumIsCoarsest ==
    (AfterRescale /\ pre.scaleType = "millennium" /\ pre.rescaleSpeed < 0) =>
        /\ scaleType = "millennium"
        /\ (pre.scaleWidth + pre.rescaleSpeed < Px(20) => scaleWidth = Px(20))

\* millennium zoomed out below 20 and clamped
MillenniumClamped ==
    /\ AfterRescale /\ pre.scaleType = "millennium" /\ pre.rescaleSpeed < 0
    /\ pre.scaleWidth + pre.rescaleSpeed < Px(20)
    /\ scaleType = "millennium" /\ scaleWidth = Px(20)

\* C7: after any rescale call the granularity is not millisecond, and a call
\* that pushes second's unit width above 200 ends at second with width 200.
SecondIsFinest ==
    (AfterRescale \/ AfterRescaleAndDraw) =>
        /\ scaleType # "millisecond"
        /\ (pre.scaleType = "second" /\ pre.scaleWidth + pre.rescaleSpeed > Px(200)) =>
               (scaleType = "second" /\ scaleWidth = Px(200))

\* second zoomed in above 200 and back at second with width 200
SecondClamped ==
    /\ AfterRescale /\ pre.scaleType = "second"
    /\ pre.scaleWidth + pre.rescaleSpeed > Px(200)
    /\ scaleType = "second" /\ scaleWidth = Px(200)

\* ------------------------------------------------------------------------
\* Properties of the grid
\* ------------------------------------------------------------------------

\* C8 as stated: after rescale and a rebuild the grid has a line at the pixel x
\* of the old line nearest to the pivot, carrying the date that line carried.
AnchorKeepsItsDate ==
    AfterRescaleAndDraw =>
        \E i \in DOMAIN linePosArr :
            linePosArr[i] = pre.x /\ lineDateArr[i] = pre.date

\* C8: after rescale and a rebuild the grid has a line at the pixel x of the
\* old line nearest to the pivot, and it carries the old line's date put
\* through incrementDateByScaleType(date, new scale type, 0), which is the old
\* date when that date lies on a boundary of the new unit.
AnchorKeepsItsTruncatedDate ==
    AfterRescaleAndDraw =>
        \E i \in DOMAIN linePosArr :
            /\ linePosArr[i] = pre.x
            /\ lineDateArr[i] = incrementDateByScaleType(pre.date, scaleType, 0)
            /\ focusX = pre.x

\* a rebuild after a rescale that changed the granularity, with a date at the
\* anchor that differs from the one the old line carried
AnchorDateChanged ==
    /\ AfterRescaleAndDraw
    /\ scaleType # pre.scaleType
    /\ incrementDateByScaleType(pre.date, scaleType, 0) # pre.date
    /\ \E i \in DOMAIN linePosArr : linePosArr[i] = pre.x

\* C9 as stated: after rescale and a rebuild the line nearest to the pivot is
\* within one unit width (the one now in force) of the old nearest line.
NearestWithinNewUnitWidth ==
    AfterRescaleAndDraw =>
        Abs(linePosArr[NearestLine(linePosArr, pre.mouseX)] - pre.x) <= scaleWidth

\* C9: after rescale and a rebuild, for a pivot inside the viewport, the line
\* nearest to the pivot is within one line spacing of the grid before the
\* rescale (the unit width that grid was built with) of the old nearest line.
NearestWithinOldUnitWidth ==
    AfterRescaleAndDraw =>
        Abs(linePosArr[NearestLine(linePosArr, pre.mouseX)] - pre.x) <= pre.spacing

\* the nearest line moved by more than the unit width now in force
NearestMovedFar ==
    /\ AfterRescaleAndDraw
    /\ Abs(linePosArr[NearestLine(linePosArr, pre.mouseX)] - pre.x) > scaleWidth
    /\ scaleType # pre.scaleType

\* C10: after every grid build the lines, by index, have strictly increasing
\* pixel x and strictly increasing dates.
GridStrictlyIncreasing ==
    \A i \in DOMAIN linePosArr : \A j \in DOMAIN linePosArr :
        i < j => /\ linePosArr[i] < linePosArr[j]
                 /\ DateBefore(lineDateArr[i], lineDateArr[j])

\* a grid built across the year 0 with lines on both sides of the focus point
GridBuiltAcrossYearZero ==
    /\ lastOp \in {"draw", "rescale+draw"}
    /\ Len(linePosArr) >= 3
    /\ \E i \in DOMAIN linePosArr : linePosArr[i] < focusX
    /\ \E i \in DOMAIN linePosArr : linePosArr[i] > focusX
    /\ \E i \in DOMAIN lineDateArr : lineDateArr[i].year < 0
    /\ \E i \in DOMAIN lineDateArr : lineDateArr[i].year >= 0

\* ------------------------------------------------------------------------
\* Properties of a held zoom button
\* ------------------------------------------------------------------------

Finer(t) == ScaleTypes[Level(t) + 1]

Coarser(t) == ScaleTypes[Level(t) - 1]

ZoomOutReachesCoarser ==
    \A t \in validScaleTypes \ {"millennium"} :
        (scaleType = t /\ zoom < 0) ~> (scaleType = Coarser(t))

\* a rescale with a negative delta moved month to year
MonthZoomedOutToYear ==
    /\ AfterRescaleAndDraw
    /\ zoom < 0
    /\ pre.scaleType = "month" /\ scaleType = "year"

\* ------------------------------------------------------------------------
\* Properties of the layout of a lane
\* ------------------------------------------------------------------------

\* periods a and b of one lane have bounding boxes [x, x + boundingWidth] that
\* do not overlap
BoxesApart(a, b) ==
    \/ a.x + a.boundingWidth <= b.x
    \/ b.x + b.boundingWidth <= a.x

\* C1: after a lane is laid out, within each row every period starts at or
\* after the bounding end of every period put in the row before it, so any two
\* periods of a row have bounding boxes that do not overlap.
RowsDoNotOverlap ==
    lastOp = "draw" =>
        \A l \in DOMAIN swimLaneArr :
            LET lane == swimLaneArr[l]
                ps   == lane.timePeriodArr
            IN  \A r \in DOMAIN lane.row :
                    \A j \in DOMAIN lane.row[r] : \A k \in DOMAIN lane.row[r] :
                        j < k =>
                            /\ ps[lane.row[r][j]].x + ps[lane.row[r][j]].boundingWidth
                                   <= ps[lane.row[r][k]].x
                            /\ BoxesApart(ps[lane.row[r][j]], ps[lane.row[r][k]])

\* a lane laid out with two periods sharing a row and a period nested in an
\* earlier one put in another row
NestedPeriodInAnotherRow ==
    /\ lastOp = "draw"
    /\ \E l \in DOMAIN swimLaneArr :
          LET lane == swimLaneArr[l]
              ps   == lane.timePeriodArr
          IN  /\ Len(lane.row) >= 2
              /\ \E r \in DOMAIN lane.row : Len(lane.row[r]) >= 2
              /\ \E a \in DOMAIN ps : \E b \in DOMAIN ps :
                    /\ a < b
                    /\ ps[a].x <= ps[b].x
                    /\ ps[b].x + ps[b].boundingWidth <= ps[a].x + ps[a].boundingWidth
                    /\ \E r1 \in DOMAIN lane.row : \E r2 \in DOMAIN lane.row :
                          /\ r1 # r2
                          /\ \E j \in DOMAIN lane.row[r1] : lane.row[r1][j] = a
                          /\ \E k \in DOMAIN lane.row[r2] : lane.row[r2][k] = b

\* ------------------------------------------------------------------------
\* More properties of the grid
\* ------------------------------------------------------------------------

AfterDraw == lastOp \in {"draw", "rescale+draw"}

\* C11: after every grid build the grid has a line at pixel x = focusX whose
\* date is incrementDateByScaleType(focusDate, scaleType, 0), for a focus
\* point inside or outside the viewport.
FocusLineInGrid ==
    AfterDraw =>
        \E i \in DOMAIN linePosArr :
            /\ linePosArr[i] = focusX
            /\ lineDateArr[i] = incrementDateByScaleType(focusDate, scaleType, 0)

\* a grid built around a focus point left of the viewport whose date is not
\* on a boundary of the unit
GridBuiltAroundFocusLeftOfViewport ==
    /\ AfterDraw
    /\ focusX < 0
    /\ incrementDateByScaleType(focusDate, scaleType, 0) # focusDate
    /\ \E i \in DOMAIN linePosArr : linePosArr[i] = focusX

\* dates a and b are one unit of scale type g apart, b the later one
OneUnitApart(a, b, g) ==
    LET days    == MakeDay(b.year, b.month, b.date) - MakeDay(a.year, a.month, a.date)
        hours   == days * 24 + b.hours - a.hours
        minutes == hours * 60 + b.minutes - a.minutes
        seconds == minutes * 60 + b.seconds - a.seconds
    IN  CASE g = "millennium" -> (b.year \div 1000) - (a.year \div 1000) = 1
          [] g = "century"    -> (b.year \div 100) - (a.year \div 100) = 1
          [] g = "decade"     -> (b.year \div 10) - (a.year \div 10) = 1
          [] g = "year"       -> b.year - a.year = 1
          [] g = "month"      -> (b.year * 12 + b.month) - (a.year * 12 + a.month) = 1
          [] g = "date"       -> days = 1
          [] g = "hour"       -> hours = 1
          [] g = "minute"     -> minutes = 1
          [] g = "second"     -> seconds = 1
          [] g = "millisecond" -> seconds * 1000 + b.ms - a.ms = 1

GridCoversViewport ==
    AfterDraw =>
        /\ Len(linePosArr) >= 1
        /\ linePosArr[1] <= 0
        /\ linePosArr[Len(linePosArr)] >= canvasWidth
        /\ \A i \in DOMAIN linePosArr :
              linePosArr[1] <= linePosArr[i] /\ linePosArr[i] <= linePosArr[Len(linePosArr)]

\* a grid built around a focus point right of the viewport
GridBuiltAroundFocusRightOfViewport ==
    /\ AfterDraw
    /\ focusX > canvasWidth
    /\ linePosArr[1] <= 0
    /\ linePosArr[Len(linePosArr)] = focusX

\* ------------------------------------------------------------------------
\* Small unit widths: a timeline loaded with a scale width that is negative,
\* zero or a fraction of a pixel, on a narrow canvas, drawn and panned
\* ------------------------------------------------------------------------

SmallCanvasPx == 6

\* unit widths in thirds of a pixel: -5 px, 0, 1/3 px, 2/3 px, 2 px
ClampWidths == {Px(-5), 0, 1, 2, Px(2)}

ClampFocus == {<<Date0(2000, 0, 1, 0, 0, 0, 0), 2>>,
               <<Date0(2004, 1, 29, 13, 59, 58, 999), -3>>,
               <<Date0(-1, 11, 31, 23, 59, 59, 999), 8>>}

ClampPanSpeeds == {Px(-2), Px(1)}

InitClamp ==
    /\ scaleType \in validScaleTypes
    /\ scaleWidth \in ClampWidths
    /\ \E f \in ClampFocus : focusDate = f[1] /\ focusX = Px(f[2])
    /\ canvasWidth = Px(SmallCanvasPx)
    /\ linePosArr = << >>
    /\ lineDateArr = << >>
    /\ lastOp = "load"
    /\ pre = NoRescale
    /\ ops = 0
    /\ calculated = NoCalculation
    /\ yOffset = 0
    /\ hoverSelection = NoSelection
    /\ returned = NoCall
    /\ mouseEvents = NoMouseEvents
    /\ swimLaneArr = << >>
    /\ zoom = 0
    /\ zoomInterval = "none"

NextClamp ==
    \/ draw
    \/ \E horizontalScrollSpeed \in ClampPanSpeeds : moveHorizontal(horizontalScrollSpeed)

SpecClamp == InitClamp /\ [][NextClamp]_vars

Min(a, b) == IF a <= b THEN a ELSE b

\* C14: every grid build ends: after draw the scale width is at least 1 px
\* (a width that was zero, negative or below 1 is 1), and the two loops have
\* pushed no more lines than fit between the focus point and the far edge of
\* the viewport, wherever the focus point is.
GridBuildEnds ==
    AfterDraw =>
        /\ scaleWidth >= Px(1)
        /\ \A i \in 1..(Len(linePosArr) - 1) : linePosArr[i + 1] - linePosArr[i] = scaleWidth
        /\ Len(linePosArr) <=
              (Max(focusX, canvasWidth) - Min(focusX, 0)) \div scaleWidth + 3

\* a grid of 1 px lines built from a width below 1 around a focus point more
\* than a viewport width left of the viewport, after two pans
ClampedGridFarLeftOfViewport ==
    /\ AfterDraw
    /\ scaleWidth = Px(1)
    /\ focusX < -canvasWidth
    /\ Len(linePosArr) > 2 * SmallCanvasPx

\* C15: after any sequence of pans and rescales the number of lines of the
\* grid is at most canvasWidth / scaleWidth plus 3 (the focus line and one
\* line beyond each edge), whatever distance has been panned.
LineCountBoundedByViewport ==
    AfterDraw => Len(linePosArr) <= canvasWidth \div scaleWidth + 3

\* ------------------------------------------------------------------------
\* TimePeriod.#calculateX: the pixel x of a date on the grid.
\* The result is a real number, kept exactly as int + num / den with
\* 0 <= num < den, int in thirds of a pixel; den = 0 stands for NaN.
\* ------------------------------------------------------------------------

\* dates converted: the date of grid line i, a date inside the unit that
\* starts there, and the last millisecond before the next line
Probes == {"line", "inside", "last"}

ProbeDate(dates, type, i, probe) ==
    CASE probe = "line"   -> dates[i]
      [] probe = "inside" ->
            IF type \in {"second", "millisecond"}
            THEN incrementDateByScaleType(dates[i], "millisecond", 1)
            ELSE incrementDateByScaleType(dates[i], Finer(type), 1)
      [] probe = "last"   -> incrementDateByScaleType(dates[i + 1], "millisecond", -1)

\* #calculateX called for a date of the unit between grid lines i and i + 1
calculateXCalled(i, probe) ==
    /\ AfterDraw
    /\ i \in 1..(Len(lineDateArr) - 1)
    /\ calculated' = [line |-> i,
                      date |-> ProbeDate(lineDateArr, scaleType, i, probe),
                      x |-> calculateX(View, ProbeDate(lineDateArr, scaleType, i, probe))]
    /\ UNCHANGED <<scaleType, scaleWidth, focusX, focusDate, canvasWidth, linePosArr,
                   lineDateArr, swimLaneArr, zoom, zoomInterval, lastOp, pre, ops,
                   yOffset, hoverSelection, returned, mouseEvents>>

MaxLine == 4

NextDate ==
    \/ draw
    \/ \E i \in 1..MaxLine, probe \in Probes : calculateXCalled(i, probe)

SpecDate == Init /\ [][NextDate]_vars

\* C16: a date d with L1.date <= d < L2.date for adjacent grid lines L1, L2 is
\* mapped to an x with L1.x <= x < L2.x, and the date of a grid line is mapped
\* to the x of that line.
DateMapsBetweenItsLines ==
    calculated.line # 0 =>
        LET i == calculated.line
            d == calculated.date
            x == calculated.x
        IN  (~DateBefore(d, lineDateArr[i]) /\ DateBefore(d, lineDateArr[i + 1])) =>
                /\ x.den # 0
                /\ linePosArr[i] <= x.int
                /\ x.int < linePosArr[i + 1]
                /\ (d = lineDateArr[i] => x.int = linePosArr[i] /\ x.num = 0)

\* ------------------------------------------------------------------------
\* Coordinates and layout of the periods
\* ------------------------------------------------------------------------

\* C17: after setupCoordinates the x of a period's start and the x of its end
\* are within [-1000, canvasWidth + 1000], for dates on either side of the grid.
CoordinatesWithinOverflow ==
    AfterDraw =>
        \A l \in DOMAIN swimLaneArr :
            \A i \in DOMAIN swimLaneArr[l].timePeriodArr :
                LET p == swimLaneArr[l].timePeriodArr[i]
                IN  /\ Px(-1000) <= p.x /\ p.x <= canvasWidth + Px(1000)
                    /\ Px(-1000) <= p.endX /\ p.endX <= canvasWidth + Px(1000)

\* a timeline of any scale type on a narrow canvas, with a unit width below
\* 1, small or large, and one lane of periods
LayoutWidths == {2, Px(5), Px(200)}

LayoutPeriods ==
    { PeriodInput(0, 40, 0), PeriodInput(10, 12, 26), PeriodInput(-1500, -1400, 0) }

LayoutFocus == {<<Date0(2000, 0, 1, 0, 0, 0, 0), 3>>,
                <<Date0(2004, 1, 29, 13, 59, 58, 999), -4>>}

InitLayout ==
    /\ scaleType \in validScaleTypes
    /\ scaleWidth \in LayoutWidths
    /\ \E f \in LayoutFocus : focusDate = f[1] /\ focusX = Px(f[2])
    /\ canvasWidth = Px(SmallCanvasPx)
    /\ linePosArr = << >>
    /\ lineDateArr = << >>
    /\ lastOp = "load"
    /\ pre = NoRescale
    /\ ops = 0
    /\ calculated = NoCalculation
    /\ yOffset = 0
    /\ hoverSelection = NoSelection
    /\ returned = NoCall
    /\ mouseEvents = NoMouseEvents
    /\ \E n \in 1..MaxPeriods : \E periods \in [1..n -> LayoutPeriods] :
          swimLaneArr = <<NewLane(periods)>>
    /\ zoom = 0
    /\ zoomInterval = "none"

SpecLayout == InitLayout /\ [][NextPack]_vars

\* C18: a draw that follows a draw with nothing changed in between gives the
\* same grid, the same rows, the same x and width of every period and the same
\* lane heights, and changes no field of the timeline: the state after a draw
\* is a fixed point of draw.
DrawAgainChangesNothing ==
    AfterDraw => drawn(View) = View

\* a timeline drawn from a unit width below 1, with a lane of two rows or more
ClampedTimelineWithRowsDrawn ==
    /\ AfterDraw
    /\ scaleWidth = Px(1)
    /\ Len(linePosArr) >= 2
    /\ \E l \in DOMAIN swimLaneArr : Len(swimLaneArr[l].row) >= 2

\* the periods of row r of lane that were placed before period i
PlacedBefore(lane, r, i) == {lane.row[r][k] : k \in DOMAIN lane.row[r]} \cap 1..(i - 1)

\* the last period placed in row r before period i, 0 when the row was empty
LastPlacedBefore(lane, r, i) ==
    IF PlacedBefore(lane, r, i) = {} THEN 0
    ELSE CHOOSE j \in PlacedBefore(lane, r, i) : \A k \in PlacedBefore(lane, r, i) : k <= j

\* row r held a period when period i was placed, and the last one ends at or
\* before the start of period i
RowTakes(lane, r, i) ==
    /\ LastPlacedBefore(lane, r, i) # 0
    /\ getBoundingEndX(lane.timePeriodArr[LastPlacedBefore(lane, r, i)])
           <= getStartX(lane.timePeriodArr[i])

\* C19: the periods of a lane are placed in list order: the first one in the
\* first row, every later one in the lowest row whose last placed period has
\* its bounding end at or before the period's start, and in a new row, the
\* next one, only when no row qualifies.
PlacedInListOrder ==
    AfterDraw =>
        \A l \in DOMAIN swimLaneArr :
            LET lane == swimLaneArr[l]
                n    == Len(lane.timePeriodArr)
            IN  /\ \A i \in 1..n : \E r \in DOMAIN lane.row : \E k \in DOMAIN lane.row[r] :
                       lane.row[r][k] = i
                /\ \A r \in DOMAIN lane.row :
                       /\ Len(lane.row[r]) >= 1
                       /\ \A j \in DOMAIN lane.row[r] : \A k \in DOMAIN lane.row[r] :
                              j < k => lane.row[r][j] < lane.row[r][k]
                /\ RowOf(lane, 1) = 1
                /\ \A i \in 2..n :
                       IF \E r \in DOMAIN lane.row : RowTakes(lane, r, i)
                       THEN /\ RowTakes(lane, RowOf(lane, i), i)
                            /\ \A r \in 1..(RowOf(lane, i) - 1) : ~RowTakes(lane, r, i)
                       ELSE /\ PlacedBefore(lane, RowOf(lane, i), i) = {}
                            /\ \A r \in 1..(RowOf(lane, i) - 1) :
                                   PlacedBefore(lane, r, i) # {}

\* the third period starts exactly at the bounding end of the first and is in
\* the first row, below a second row that holds the second period
ThirdPeriodBackInFirstRow ==
    /\ AfterDraw
    /\ \E l \in DOMAIN swimLaneArr :
          LET lane == swimLaneArr[l]
          IN  /\ Len(lane.timePeriodArr) >= 3
              /\ lane.row[1] = <<1, 3>>
              /\ Len(lane.row) >= 2
              /\ lane.row[2][1] = 2
              /\ getStartX(lane.timePeriodArr[3]) = getBoundingEndX(lane.timePeriodArr[1])

\* C20: whatever the order of the list, every period is in the lowest row in
\* which its bounding box overlaps no period that was in that row already, all
\* periods of the row considered.
LowestRowWithoutOverlap ==
    AfterDraw =>
        \A l \in DOMAIN swimLaneArr :
            LET lane == swimLaneArr[l]
                ps   == lane.timePeriodArr
            IN  \A i \in 1..Len(ps) :
                    /\ \A j \in PlacedBefore(lane, RowOf(lane, i), i) : BoxesApart(ps[j], ps[i])
                    /\ \A r \in 1..(RowOf(lane, i) - 1) :
                           \E j \in PlacedBefore(lane, r, i) : ~BoxesApart(ps[j], ps[i])

\* C21: after setupCoordinates the bounding width of a period is the larger
\* of its bar width and its label width (the measured text plus the two side
\* margins), so it is at least the label width and greater than 0, also for a
\* bar of width zero or less.
BoundingWidthIsMaxOfBarAndLabel ==
    AfterDraw =>
        \A l \in DOMAIN swimLaneArr :
            \A i \in DOMAIN swimLaneArr[l].timePeriodArr :
                LET p == swimLaneArr[l].timePeriodArr[i]
                IN  /\ p.textWidth = p.nameWidth + Px(4)
                    /\ p.boundingWidth >= p.width
                    /\ p.boundingWidth >= p.textWidth
                    /\ p.boundingWidth \in {p.width, p.textWidth}
                    /\ p.boundingWidth > 0
                    /\ getBoundingEndX(p) = p.x + p.boundingWidth

\* a laid-out lane with a bar of negative width and a bar wider than its label
NegativeBarAndWideBarLaidOut ==
    /\ AfterDraw
    /\ \E l \in DOMAIN swimLaneArr :
          /\ \E i \in DOMAIN swimLaneArr[l].timePeriodArr :
                /\ swimLaneArr[l].timePeriodArr[i].width < 0
                /\ swimLaneArr[l].timePeriodArr[i].boundingWidth = Px(4)
          /\ \E i \in DOMAIN swimLaneArr[l].timePeriodArr :
                swimLaneArr[l].timePeriodArr[i].boundingWidth
                    > swimLaneArr[l].timePeriodArr[i].textWidth

\* ------------------------------------------------------------------------
\* Lanes: a timeline with lanes that are shown and hidden, scrolled
\* vertically and tested against the mouse
\* ------------------------------------------------------------------------

\* six periods with the same dates: six rows
TallLane == [i \in 1..6 |-> PeriodInput(0, 40, 0)]

TwoPeriods == <<PeriodInput(0, 40, 0), PeriodInput(10, 12, 26)>>

\* the lists of lanes of the loaded files
LaneLists ==
    { <<TwoPeriods>>, <<TallLane>>,
      <<TwoPeriods, TallLane>>, <<TallLane, << >> >>,
      <<TwoPeriods, << >>, TwoPeriods>> }

VerticalSpeeds == {Px(50)}

MousePoints == {<<Px(5), Px(360)>>, <<Px(15), Px(160)>>}

InitLanes ==
    /\ Loaded({"year"}, {100}, { <<Date0(2000, 0, 1, 0, 0, 0, 0), 25>> })
    /\ \E periods \in LaneLists : \E hidden \in [DOMAIN periods -> BOOLEAN] :
          swimLaneArr = [l \in DOMAIN periods |->
                            [NewLane(periods[l]) EXCEPT !.isHidden = hidden[l]]]
    /\ zoom = 0
    /\ zoomInterval = "none"

\* click on a button of the lane panel: the lane is shown or hidden and the
\* timeline is drawn
toggleVisibility(l) ==
    /\ HandlersAttached
    /\ l \in DOMAIN swimLaneArr
    /\ SetView(drawn([View EXCEPT !.swimLaneArr[l].isHidden = ~@]))
    /\ lastOp' = "draw"
    /\ pre' = NoRescale
    /\ UNCHANGED <<zoom, zoomInterval, ops, calculated, hoverSelection, returned, mouseEvents>>

moveVertical(verticalScrollSpeed) ==
    /\ HandlersAttached
    /\ ops < MaxOps
    /\ SetView(movedVertical(View, verticalScrollSpeed))
    /\ lastOp' = "pan"
    /\ pre' = NoRescale
    /\ ops' = ops + 1
    /\ UNCHANGED <<zoom, zoomInterval, calculated, hoverSelection, returned, mouseEvents>>

\* mousemove and mousedown: Timeline.updateMouseState(mouseX, mouseY)
updateMouseState(mouseX, mouseY) ==
    /\ HandlersAttached
    /\ swimLaneArr' = mouseStateUpdated(swimLaneArr, mouseX, mouseY)
    /\ hoverSelection' = hoverSelected(hoverMatches(swimLaneArr, mouseX, mouseY), mouseX, mouseY)
    /\ lastOp' = "mouse"
    /\ pre' = NoRescale
    /\ UNCHANGED <<scaleType, scaleWidth, focusX, focusDate, canvasWidth, linePosArr,
                   lineDateArr, zoom, zoomInterval, ops, calculated, yOffset, returned,
                   mouseEvents>>

NextLanes ==
    \/ draw
    \/ \E l \in DOMAIN swimLaneArr : toggleVisibility(l)
    \/ \E verticalScrollSpeed \in VerticalSpeeds : moveVertical(verticalScrollSpeed)
    \/ \E m \in MousePoints : updateMouseState(m[1], m[2])

SpecLanes == InitLanes /\ [][NextLanes]_vars

\* the visible lanes after lane l in the list
VisibleAfter(l) == {n \in DOMAIN swimLaneArr : n > l /\ ~swimLaneArr[n].isHidden}

\* the next visible lane after lane l
NextVisible(l) == CHOOSE n \in VisibleAfter(l) : \A o \in VisibleAfter(l) : n <= o

\* C22: after a layout pass every visible lane with at least one period has
\* the height max(200, 2 * margin + rows * rowHeight), where rowHeight is the
\* bounding height of its first period, and every row of periods lies inside
\* the lane's height
LaneHeightHoldsItsRows ==
    AfterDraw =>
        \A l \in DOMAIN swimLaneArr :
            LET lane == swimLaneArr[l]
            IN  (~lane.isHidden /\ Len(lane.timePeriodArr) >= 1) =>
                    /\ lane.rowHeight = lane.timePeriodArr[1].boundingHeight
                    /\ lane.height = Max(Px(200), 2 * Px(5) + Len(lane.row) * lane.rowHeight)
                    /\ \A i \in DOMAIN lane.timePeriodArr :
                           /\ lane.timePeriodArr[i].y >= lane.bottomY - lane.height
                           /\ lane.timePeriodArr[i].y + lane.timePeriodArr[i].boundingHeight
                                  <= lane.bottomY

\* a lane of six rows, higher than the minimum, is drawn beside one of the
\* minimum height
LaneOfSixRowsDrawn ==
    /\ AfterDraw
    /\ \E l \in DOMAIN swimLaneArr :
           /\ ~swimLaneArr[l].isHidden
           /\ Len(swimLaneArr[l].row) = 6
           /\ swimLaneArr[l].height > Px(200)
    /\ \E l \in DOMAIN swimLaneArr :
           /\ ~swimLaneArr[l].isHidden
           /\ Len(swimLaneArr[l].row) = 2
           /\ swimLaneArr[l].height = Px(200)

\* C23: after a layout pass the visible lanes are stacked upward from the
\* baseline (yOffset + canvasHeight - baseLineHeight) in reverse list order:
\* the last visible lane ends at the baseline, and every other visible lane
\* ends where the next visible lane begins
LanesStackedFromBaseline ==
    AfterDraw =>
        \A l \in DOMAIN swimLaneArr :
            ~swimLaneArr[l].isHidden =>
                /\ swimLaneArr[l].height > 0
                /\ swimLaneArr[l].bottomY =
                       IF VisibleAfter(l) = {}
                       THEN yOffset + canvasHeight - baseLineHeight
                       ELSE swimLaneArr[NextVisible(l)].bottomY
                                - swimLaneArr[NextVisible(l)].height

\* a scrolled timeline of three lanes is drawn with the middle lane hidden
ScrolledLanesAroundHiddenLaneDrawn ==
    /\ AfterDraw
    /\ yOffset # 0
    /\ Len(swimLaneArr) = 3
    /\ ~swimLaneArr[1].isHidden
    /\ swimLaneArr[2].isHidden
    /\ ~swimLaneArr[3].isHidden
    /\ swimLaneArr[1].bottomY = yOffset + Px(180)

EmptyLaneKeepsMinimumHeight ==
    \A l \in DOMAIN swimLaneArr :
        (~swimLaneArr[l].isHidden /\ Len(swimLaneArr[l].timePeriodArr) = 0) =>
            /\ getHeight(swimLaneArr[l]) = Px(200)
            /\ \A r \in DOMAIN swimLaneArr[l].row : swimLaneArr[l].row[r] = << >>
            /\ AfterDraw =>
                   /\ drawn(View).swimLaneArr[l] = swimLaneArr[l]
                   /\ \A m \in MousePoints :
                          /\ mouseStateUpdated(swimLaneArr, m[1], m[2])[l] = swimLaneArr[l]
                          /\ hoverSelected(hoverMatches(swimLaneArr, m[1], m[2]),
                                           m[1], m[2]).lane # l

\* an empty lane is drawn between two lanes with periods and the mouse is
\* over a period of the lane below it
MouseTestedAroundEmptyLane ==
    /\ lastOp = "mouse"
    /\ Len(swimLaneArr) = 3
    /\ \A l \in DOMAIN swimLaneArr : ~swimLaneArr[l].isHidden
    /\ Len(swimLaneArr[2].timePeriodArr) = 0
    /\ swimLaneArr[2].bottomY = swimLaneArr[3].bottomY - Px(200)
    /\ swimLaneArr[1].bottomY = swimLaneArr[2].bottomY - Px(200)
    /\ hoverSelection.lane = 3

\* ------------------------------------------------------------------------
\* Calls: the functions of the library called with scale types, dates and
\* date strings of every kind
\* ------------------------------------------------------------------------

MaxIncrement == 2

Increments == -MaxIncrement..MaxIncrement

GivenScaleTypes == validScaleTypes \cup {"week", ""}

CallDates ==
    { Date0(2004, 1, 29, 13, 59, 58, 999),
      Date0(2000, 0, 1, 0, 0, 0, 0),
      Date0(1999, 11, 31, 23, 0, 0, 0),
      Date0(2023, 0, 31, 0, 0, 30, 0),
      Date0(-1, 11, 31, 23, 59, 59, 999) }

DateStr(minus, fields) == [minus |-> minus, fields |-> fields]

\* date strings of the form [-]YYYY-MM-DD[-HH-MM-SS-MS]
WellFormedDateStrings ==
    { DateStr(FALSE, <<"2004", "02", "29">>),
      DateStr(TRUE, <<"0044", "02", "13">>),
      DateStr(FALSE, <<"2004", "01", "31", "13", "59", "59", "999">>),
      DateStr(FALSE, <<"2004", "01", "29">>) }

\* a component is missing, a field is empty, a field is not a number, the
\* string is empty
MalformedDateStrings ==
    { DateStr(FALSE, <<"2004", "02">>),
      DateStr(FALSE, <<"2004", "", "29">>),
      DateStr(FALSE, <<"2004", "02", "x">>),
      DateStr(FALSE, <<"year", "02", "29">>),
      DateStr(FALSE, <<"2004", "02", "29", "x", "00", "59", "999">>),
      DateStr(FALSE, <<"2004", "02", "29", "13">>),
      DateStr(FALSE, <<"">>) }

DateStrings == WellFormedDateStrings \cup MalformedDateStrings

InitCalls ==
    /\ Loaded({"year"}, {100}, { <<Date0(2000, 0, 1, 0, 0, 0, 0), 25>> })
    /\ swimLaneArr = << >>
    /\ zoom = 0
    /\ zoomInterval = "none"

\* new Timeline(scaleWidth, scaleType, focusDate, focusX, canvasWidth): the
\* constructor throws what setScaleType throws, and no Timeline is made
newTimeline(type) ==
    /\ returned = NoCall
    /\ returned' = [op |-> "Timeline", scaleType |-> type, threw |-> setScaleType(type).threw]
    /\ IF setScaleType(type).threw
       THEN UNCHANGED <<scaleType, linePosArr, lineDateArr, lastOp, pre, yOffset>>
       ELSE /\ scaleType' = setScaleType(type).value
            /\ linePosArr' = << >>
            /\ lineDateArr' = << >>
            /\ lastOp' = "load"
            /\ pre' = NoRescale
            /\ yOffset' = 0
    /\ UNCHANGED <<scaleWidth, focusX, focusDate, canvasWidth, swimLaneArr, zoom,
                   zoomInterval, ops, calculated, hoverSelection, mouseEvents>>

setScaleTypeCalled(type) ==
    /\ returned = NoCall
    /\ returned' = [op |-> "setScaleType", scaleType |-> type,
                    threw |-> setScaleType(type).threw]
    /\ scaleType' = IF setScaleType(type).threw THEN scaleType ELSE setScaleType(type).value
    /\ UNCHANGED <<scaleWidth, focusX, focusDate, canvasWidth, linePosArr, lineDateArr,
                   swimLaneArr, zoom, zoomInterval, lastOp, pre, ops, calculated, yOffset,
                   hoverSelection, mouseEvents>>

getFocusDateAsValueCalled(date, type) ==
    /\ returned = NoCall
    /\ returned' = [op |-> "getFocusDateAsValue", scaleType |-> type, date |-> date,
                    threw |-> getFocusDateAsValue(date, type).threw,
                    value |-> getFocusDateAsValue(date, type).value]
    /\ UNCHANGED <<scaleType, scaleWidth, focusX, focusDate, canvasWidth, linePosArr,
                   lineDateArr, swimLaneArr, zoom, zoomInterval, lastOp, pre, ops,
                   calculated, yOffset, hoverSelection, mouseEvents>>

incrementDateByScaleTypeCalled(oldDate, type, increment) ==
    /\ returned = NoCall
    /\ returned' = [op |-> "incrementDateByScaleType", scaleType |-> type,
                    date |-> oldDate, increment |-> increment, threw |-> FALSE,
                    value |-> incrementDateByScaleType(oldDate, type, increment)]
    /\ UNCHANGED <<scaleType, scaleWidth, focusX, focusDate, canvasWidth, linePosArr,
                   lineDateArr, swimLaneArr, zoom, zoomInterval, lastOp, pre, ops,
                   calculated, yOffset, hoverSelection, mouseEvents>>

\* Timeline.load of a document without swim lanes: json.scaleType and
\* json.focusDate vary, json.scaleWidth and json.focusX are the loaded ones
load(type, dateStr) ==
    /\ returned = NoCall
    /\ scaleType' = type
    /\ focusDate' = parseDate(dateStr).value
    /\ returned' = [op |-> "load", scaleType |-> type, dateStr |-> dateStr,
                    threw |-> parseDate(dateStr).threw, value |-> parseDate(dateStr).value]
    /\ UNCHANGED <<scaleWidth, focusX, canvasWidth, linePosArr, lineDateArr, swimLaneArr,
                   zoom, zoomInterval, lastOp, pre, ops, calculated, yOffset,
                   hoverSelection, mouseEvents>>

\* one call is made on the loaded timeline
NextCalls ==
    \/ \E type \in GivenScaleTypes : newTimeline(type)
    \/ \E type \in GivenScaleTypes : setScaleTypeCalled(type)
    \/ \E date \in CallDates : \E type \in GivenScaleTypes :
           getFocusDateAsValueCalled(date, type)
    \/ \E oldDate \in CallDates : \E type \in GivenScaleTypes : \E increment \in Increments :
           incrementDateByScaleTypeCalled(oldDate, type, increment)
    \/ \E type \in GivenScaleTypes : \E dateStr \in DateStrings : load(type, dateStr)

SpecCalls == InitCalls /\ [][NextCalls]_vars

\* C26: a call of the constructor, setScaleType, getFocusDateAsValue,
\* incrementDateByScaleType or load that is given a scale type outside the
\* ten recognised ones throws an error, and no such scale type is ever stored
InvalidScaleTypeFails ==
    /\ scaleType \in validScaleTypes
    /\ (returned.op \in {"Timeline", "setScaleType", "getFocusDateAsValue",
                         "incrementDateByScaleType", "load"}
            /\ returned.scaleType \notin validScaleTypes) => returned.threw

\* the texts that are one or more digits
Digits(text) == text # "" /\ ~Number(text).nan

\* the date string has the form [-]YYYY-MM-DD[-HH-MM-SS-MS]
MatchesFormat(dateStr) ==
    /\ Len(dateStr.fields) \in {3, 7}
    /\ \A i \in DOMAIN dateStr.fields : Digits(dateStr.fields[i])

\* C27: load of a document whose focus date string does not have the form
\* [-]YYYY-MM-DD[-HH-MM-SS-MS] throws an error instead of taking a date from it
MalformedDateStringFails ==
    (returned.op = "load" /\ ~MatchesFormat(returned.dateStr)) => returned.threw

\* the Date is at the first millisecond of its day, hour, minute, second
AtStartOfDay(d) == d.hours = 0 /\ d.minutes = 0 /\ d.seconds = 0 /\ d.ms = 0

\* every field of the Date finer than the scale type has its first value
FinerFieldsReset(d, type) ==
    CASE type \in {"millennium", "century", "decade", "year"} ->
             d.month = 0 /\ d.date = 1 /\ AtStartOfDay(d)
      [] type = "month" -> d.date = 1 /\ AtStartOfDay(d)
      [] type = "date" -> AtStartOfDay(d)
      [] type = "hour" -> d.minutes = 0 /\ d.seconds = 0 /\ d.ms = 0
      [] type = "minute" -> d.seconds = 0 /\ d.ms = 0
      [] type = "second" -> d.ms = 0
      [] type = "millisecond" -> TRUE

\* C28: the Date returned by incrementDateByScaleType(d, g, n) has every
\* field finer than g at its start-of-unit value: January, day 1 and time
\* 00:00:00.000 for millennium, century, decade and year, day 1 and time zero
\* for month, time zero for date, and so on down to millisecond
IncrementResetsFinerFields ==
    (returned.op = "incrementDateByScaleType" /\ returned.scaleType \in validScaleTypes) =>
        FinerFieldsReset(returned.value, returned.scaleType)

\* C29: incrementing by n and then by m is incrementing by n + m, for every
\* scale type, date and increments of either sign; with m = -n the result is
\* that of the increment 0
IncrementsAddUp ==
    (returned.op = "incrementDateByScaleType" /\ returned.scaleType \in validScaleTypes) =>
        \A m \in Increments :
            incrementDateByScaleType(returned.value, returned.scaleType, m)
                = incrementDateByScaleType(returned.date, returned.scaleType,
                                           returned.increment + m)

\* Timeline.drawBaseline: the label drawn under grid line i
baselineLabel(i) == getBaselineLabel(lineDateArr[i], scaleType, scaleWidth)

YearStart(year) == Date0(year, 0, 1, 0, 0, 0, 0)

\* two periods more than 1000 px left of the canvas of the loaded view, and
\* two periods in it
FarLeftPeriods ==
    <<DatedPeriod(YearStart(1985), YearStart(1986), 0),
      DatedPeriod(YearStart(1988), YearStart(1989), 0)>>

NearPeriods ==
    <<DatedPeriod(YearStart(2000), YearStart(2001), 0),
      DatedPeriod(Date0(2000, 6, 1, 0, 0, 0, 0), YearStart(2002), 26)>>

PanLaneLists == { <<FarLeftPeriods>>, <<NearPeriods>>, <<NearPeriods, FarLeftPeriods>> }

\* drags: a long one to the right, a short one to the left
DragSpeeds == {Px(600), Px(-50)}

InitPan ==
    /\ Loaded({"year"}, {100, 200}, { <<Date0(2000, 0, 1, 0, 0, 0, 0), 25>> })
    /\ \E periods \in PanLaneLists :
          swimLaneArr = [l \in DOMAIN periods |-> NewLane(periods[l])]
    /\ zoom = 0
    /\ zoomInterval = "none"

NextPan ==
    \/ draw
    \/ \E horizontalScrollSpeed \in DragSpeeds : moveHorizontal(horizontalScrollSpeed)
    \/ \E verticalScrollSpeed \in VerticalSpeeds : moveVertical(verticalScrollSpeed)

SpecPan == InitPan /\ [][NextPan]_vars

\* what a layout pass gives that does not depend on the vertical offset: the
\* grid and, of every lane, its rows and height and the x and width of its
\* periods
HorizontalLayout(v) ==
    [linePosArr |-> v.linePosArr,
     lineDateArr |-> v.lineDateArr,
     lanes |-> [l \in DOMAIN v.swimLaneArr |->
                   [row |-> v.swimLaneArr[l].row,
                    height |-> v.swimLaneArr[l].height,
                    isHidden |-> v.swimLaneArr[l].isHidden,
                    periods |-> [i \in DOMAIN v.swimLaneArr[l].timePeriodArr |->
                                    <<v.swimLaneArr[l].timePeriodArr[i].x,
                                      v.swimLaneArr[l].timePeriodArr[i].width,
                                      v.swimLaneArr[l].timePeriodArr[i].boundingWidth>>]]]]

\* C31: a pan step changes either focusX alone or yOffset alone, by the
\* distance of the pan: focus date, scale type, scale width, grid and lanes
\* are as before; and drawing after a vertical pan gives the grid, the rows,
\* the lane heights and the x and width of every period that drawing without
\* the pan gives
PanMovesOnlyItsOffset ==
    [][/\ lastOp' = "pan" =>
              /\ \/ \E d \in DragSpeeds : focusX' = focusX + d /\ yOffset' = yOffset
                 \/ \E d \in VerticalSpeeds : yOffset' = yOffset + d /\ focusX' = focusX
              /\ UNCHANGED <<focusDate, scaleType, scaleWidth, canvasWidth, linePosArr,
                             lineDateArr, swimLaneArr>>
       /\ (lastOp' = "draw" /\ yOffset' = yOffset) =>
              \A d \in VerticalSpeeds :
                  HorizontalLayout(drawn(movedVertical(View, d))) = HorizontalLayout(View')
      ]_vars

\* a timeline with lanes is drawn after a vertical pan and a horizontal pan
DrawnAfterBothPans ==
    /\ lastOp = "draw"
    /\ yOffset # 0
    /\ focusX # Px(25)
    /\ Len(swimLaneArr) = 2
    /\ swimLaneArr[2].bottomY = yOffset + canvasHeight - baseLineHeight

\* ------------------------------------------------------------------------
\* Deferred redraws: the wheel and mouse handlers and the animation frame
\* ------------------------------------------------------------------------

\* initializeTimeline: horizontalScrollSpeed and verticalScrollSpeed
ScrollSpeed == Px(50)

\* initializeTimeline: rescaleSpeed
WheelRescaleSpeed == Px(10)

\* the modifier key held during a wheel event
WheelKeys == {"shift", "alt", "none"}

\* the sign of event.deltaY
WheelDeltas == {-1, 0, 1}

\* the if at the end of the wheel and mousemove handlers scheduling a redraw
\* at every change, the flag not read
scheduledAtEveryChange(m, didChange) ==
    IF didChange
    THEN [m EXCEPT !.drawScheduled = TRUE, !.frames = @ + 1, !.didChange = TRUE,
                   !.changes = @ + 1]
    ELSE [m EXCEPT !.didChange = FALSE]

\* the if at the end of the wheel and mousemove handlers: one callback is put
\* in the animation frame queue unless a redraw is scheduled
scheduled(m, didChange) ==
    IF didChange
    THEN IF ~m.drawScheduled
         THEN [m EXCEPT !.drawScheduled = TRUE, !.frames = @ + 1, !.didChange = TRUE,
                        !.changes = @ + 1]
         ELSE [m EXCEPT !.didChange = TRUE, !.changes = @ + 1]
    ELSE [m EXCEPT !.didChange = FALSE]

\* the view state after the Timeline call of the wheel handler
wheelMoved(v, key, deltaY, mouseX) ==
    IF deltaY = 0 THEN v
    ELSE IF key = "shift" THEN movedHorizontal(v, deltaY * ScrollSpeed)
    ELSE IF key = "alt" THEN rescaled(v, -deltaY * WheelRescaleSpeed, mouseX)
    ELSE movedVertical(v, -deltaY * ScrollSpeed)

\* the name Timeline.updateMouseState returns, names being told apart by the
\* place of the period
hoverName(lanes, mouseX, mouseY) ==
    LET h == hoverSelected(hoverMatches(lanes, mouseX, mouseY), mouseX, mouseY)
    IN  <<h.lane, h.period>>

\* the view state after the mousemove handler's Timeline calls
mouseMoved(v, m, mouseX, mouseY) ==
    LET u == [v EXCEPT !.swimLaneArr = mouseStateUpdated(v.swimLaneArr, mouseX, mouseY)]
    IN  IF m.isDragging
        THEN movedVertical(movedHorizontal(u, mouseX - m.dragStart.x),
                           mouseY - m.dragStart.y)
        ELSE u

InitFrame ==
    /\ Loaded({"year"}, {100}, { <<Date0(2000, 0, 1, 0, 0, 0, 0), 25>> })
    /\ swimLaneArr = <<NewLane(TwoPeriods)>>
    /\ zoom = 0
    /\ zoomInterval = "none"

wheel(key, deltaY) ==
    /\ HandlersAttached
    /\ ops < MaxOps
    /\ SetView(wheelMoved(View, key, deltaY, mouseEvents.mouseX))
    /\ mouseEvents' = scheduled(mouseEvents, deltaY # 0)
    /\ lastOp' = "wheel"
    /\ pre' = NoRescale
    /\ ops' = ops + 1
    /\ UNCHANGED <<zoom, zoomInterval, calculated, hoverSelection, returned>>

mousedown ==
    /\ HandlersAttached
    /\ ~mouseEvents.isDragging
    /\ swimLaneArr' = mouseStateUpdated(swimLaneArr, mouseEvents.mouseX, mouseEvents.mouseY)
    /\ hoverSelection' = hoverSelected(hoverMatches(swimLaneArr, mouseEvents.mouseX,
                                                    mouseEvents.mouseY),
                                       mouseEvents.mouseX, mouseEvents.mouseY)
    /\ mouseEvents' = [mouseEvents EXCEPT
                          !.isDragging = TRUE,
                          !.dragStart = [x |-> mouseEvents.mouseX, y |-> mouseEvents.mouseY]]
    /\ lastOp' = "mousedown"
    /\ pre' = NoRescale
    /\ UNCHANGED <<scaleType, scaleWidth, focusX, focusDate, canvasWidth, linePosArr,
                   lineDateArr, zoom, zoomInterval, ops, calculated, yOffset, returned>>

\* mouseup, mouseleave and contextmenu
mouseup ==
    /\ HandlersAttached
    /\ mouseEvents.isDragging
    /\ mouseEvents' = [mouseEvents EXCEPT !.isDragging = FALSE]
    /\ lastOp' = "mouseup"
    /\ pre' = NoRescale
    /\ UNCHANGED <<scaleType, scaleWidth, focusX, focusDate, canvasWidth, linePosArr,
                   lineDateArr, swimLaneArr, zoom, zoomInterval, ops, calculated, yOffset,
                   hoverSelection, returned>>

mousemove(mouseX, mouseY) ==
    /\ HandlersAttached
    /\ ops < MaxOps
    /\ SetView(mouseMoved(View, mouseEvents, mouseX, mouseY))
    /\ hoverSelection' = hoverSelected(hoverMatches(swimLaneArr, mouseX, mouseY),
                                       mouseX, mouseY)
    /\ mouseEvents' =
           scheduled([mouseEvents EXCEPT
                         !.mouseX = mouseX, !.mouseY = mouseY,
                         !.lastHover = hoverName(swimLaneArr, mouseX, mouseY),
                         !.dragStart = IF mouseEvents.isDragging
                                       THEN [x |-> mouseX, y |-> mouseY] ELSE @],
                     \/ mouseEvents.lastHover # hoverName(swimLaneArr, mouseX, mouseY)
                     \/ mouseEvents.isDragging)
    /\ lastOp' = "mousemove"
    /\ pre' = NoRescale
    /\ ops' = ops + 1
    /\ UNCHANGED <<zoom, zoomInterval, calculated, returned>>

\* the callback given to requestAnimationFrame
animationFrame ==
    /\ mouseEvents.frames > 0
    /\ SetView(drawn(View))
    /\ mouseEvents' = [mouseEvents EXCEPT !.drawScheduled = FALSE, !.frames = @ - 1,
                                          !.didChange = FALSE,
                                          !.redrawn = mouseEvents.changes, !.changes = 0]
    /\ lastOp' = "frame"
    /\ pre' = NoRescale
    /\ UNCHANGED <<zoom, zoomInterval, ops, calculated, hoverSelection, returned>>

NextFrame ==
    \/ draw
    \/ \E key \in WheelKeys, deltaY \in WheelDeltas : wheel(key, deltaY)
    \/ mousedown
    \/ mouseup
    \/ \E m \in MousePoints : mousemove(m[1], m[2])
    \/ animationFrame

\* the browser runs every callback of the animation frame queue (a callback
\* that waits is enabled, so its weak fairness is that the queue is empty again
\* and again)
SpecFrame ==
    /\ InitFrame /\ [][NextFrame]_vars
    /\ []<>(mouseEvents.frames = 0)

\* a wheel or mousemove event changed the state of the view
ChangedByEvent == lastOp \in {"wheel", "mousemove"} /\ mouseEvents.didChange

\* the callback has drawn the view as it is now and nothing is waiting
RedrawnLatest ==
    /\ lastOp = "frame"
    /\ mouseEvents.frames = 0
    /\ ~mouseEvents.drawScheduled
    /\ View = drawn(View)

PanKeptByRescale ==
    lastOp = "rescale" =>
        \E i \in DOMAIN linePosArr :
            /\ focusX = linePosArr[i] + pre.panned
            /\ focusDate = lineDateArr[i]

\* x <= y for two results of #calculateX, false when either is NaN
NotRightOf(x, y) ==
    /\ x.den # 0
    /\ y.den # 0
    /\ \/ x.int < y.int
       \/ x.int = y.int /\ x.num * y.den <= y.num * x.den

\* C34: two dates d1 <= d2 converted against the same grid get x(d1) <= x(d2),
\* at every scale type
DateToPixelIsMonotone ==
    calculated.line # 0 =>
        \A i \in 1..MaxLine, probe \in Probes :
            (/\ i < Len(lineDateArr)
             /\ ~DateBefore(ProbeDate(lineDateArr, scaleType, i, probe), calculated.date))
                => NotRightOf(calculated.x,
                              calculateX(View, ProbeDate(lineDateArr, scaleType, i, probe)))

\* the rows and the height of every lane of view state v
RowsAndHeights(v) ==
    [l \in DOMAIN v.swimLaneArr |->
        [row |-> v.swimLaneArr[l].row, height |-> v.swimLaneArr[l].height]]

\* C35: laying out again after a horizontal pan, scale type and scale width
\* unchanged, gives every lane the rows and the height it had before the pan,
\* also when periods are left of the viewport
PanKeepsRows ==
    lastOp = "draw" =>
        \A d \in DragSpeeds :
            RowsAndHeights(drawn(movedHorizontal(View, d))) = RowsAndHeights(View)

\* the places (row, position) of lane at which period i is listed
PlacesOf(lane, i) ==
    {rk \in UNION {{<<r, k>> : k \in DOMAIN lane.row[r]} : r \in DOMAIN lane.row} :
        lane.row[rk[1]][rk[2]] = i}

\* C36: after the layout of a visible lane with at least one period every
\* period is listed in exactly one row, every row lists periods of the lane in
\* increasing order and is not empty, and there are no more rows than periods
RowsPartitionThePeriods ==
    lastOp = "draw" =>
        \A l \in DOMAIN swimLaneArr :
            LET lane == swimLaneArr[l]
            IN  (~lane.isHidden /\ Len(lane.timePeriodArr) >= 1) =>
                    /\ \A i \in DOMAIN lane.timePeriodArr :
                           Cardinality(PlacesOf(lane, i)) = 1
                    /\ \A r \in DOMAIN lane.row :
                           /\ Len(lane.row[r]) >= 1
                           /\ \A k \in DOMAIN lane.row[r] :
                                  /\ lane.row[r][k] \in DOMAIN lane.timePeriodArr
                                  /\ k > 1 => lane.row[r][k - 1] < lane.row[r][k]
                    /\ Len(lane.row) <= Len(lane.timePeriodArr)

\* three periods are packed into two rows, the third behind the first
ThreePeriodsInTwoRows ==
    /\ lastOp = "draw"
    /\ Len(swimLaneArr[1].timePeriodArr) = 3
    /\ swimLaneArr[1].row = << <<1, 3>>, <<2>> >>

\* the periods of the visible lanes, as (lane, period) pairs
VisiblePeriods ==
    UNION {{<<l, j>> : j \in DOMAIN swimLaneArr[l].timePeriodArr} :
              l \in {n \in DOMAIN swimLaneArr : ~swimLaneArr[n].isHidden}}

\* the bounding boxes of periods p and q have no inner point in common
BoxesDisjoint(p, q) ==
    \/ p.x + p.boundingWidth <= q.x
    \/ q.x + q.boundingWidth <= p.x
    \/ p.y + p.boundingHeight <= q.y
    \/ q.y + q.boundingHeight <= p.y

\* C37: once laid out and drawn, the bounding boxes of the periods of the
\* visible lanes are pairwise disjoint, every box lies between the top and
\* the bottom of its lane, and no mouse point is inside two boxes
BoundingBoxesDisjoint ==
    lastOp \in {"draw", "mouse"} =>
        /\ \A a \in VisiblePeriods, b \in VisiblePeriods :
               a # b => BoxesDisjoint(swimLaneArr[a[1]].timePeriodArr[a[2]],
                                      swimLaneArr[b[1]].timePeriodArr[b[2]])
        /\ \A a \in VisiblePeriods :
               /\ swimLaneArr[a[1]].bottomY - swimLaneArr[a[1]].height
                      <= swimLaneArr[a[1]].timePeriodArr[a[2]].y
               /\ swimLaneArr[a[1]].timePeriodArr[a[2]].y
                      + swimLaneArr[a[1]].timePeriodArr[a[2]].boundingHeight
                      <= swimLaneArr[a[1]].bottomY
        /\ \A m \in MousePoints :
               Cardinality(hoverMatches(swimLaneArr, m[1], m[2])) <= 1

\* the mouse is over one period of a lane of two rows or more
OnePeriodOfSeveralRowsHit ==
    /\ lastOp = "mouse"
    /\ hoverSelection.lane # 0
    /\ Len(swimLaneArr[hoverSelection.lane].row) >= 2
    /\ Cardinality(hoverMatches(swimLaneArr, hoverSelection.mouseX,
                                hoverSelection.mouseY)) = 1

\* C38: at millennium, century and decade the year of the result is the
\* multiple of the unit at or below the year shifted by increment units, for
\* years before year 0 too, and one more increment gives the year one unit on
CoarseYearFlooredToUnit ==
    (/\ returned.op = "incrementDateByScaleType"
     /\ returned.scaleType \in {"millennium", "century", "decade"}) =>
        LET unit == YearsOf(returned.scaleType)
            shifted == returned.date.year + returned.increment * unit
            year == returned.value.year
        IN  /\ year % unit = 0
            /\ year <= shifted
            /\ shifted < year + unit
            /\ incrementDateByScaleType(returned.date, returned.scaleType,
                                        returned.increment + 1).year = year + unit

\* one century on from year -1: year 0
CenturyAcrossYearZero ==
    /\ returned.op = "incrementDateByScaleType"
    /\ returned.scaleType = "century"
    /\ returned.date.year = -1
    /\ returned.increment = 1
    /\ returned.value.year = 0

\* C39: load of a well-formed date string [-]YYYY-MM-DD[-HH-MM-SS-MS] takes
\* from it a date with the year YYYY, negative exactly with the leading "-",
\* the month MM (counted from 1 as in the documented example, or from 0 as
\* Date counts months), the day DD, and the time fields given, or zero
ParsedFieldsAsGiven ==
    (returned.op = "load" /\ returned.dateStr \in WellFormedDateStrings) =>
        LET fields == returned.dateStr.fields
            date == returned.value
            given(i) == IF i \in DOMAIN fields THEN Number(fields[i]).n ELSE 0
        IN  /\ ~returned.threw
            /\ date.year = (IF returned.dateStr.minus THEN -1 ELSE 1) * given(1)
            /\ date.month \in {given(2) - 1, given(2)}
            /\ date.date = given(3)
            /\ date.hours = given(4)
            /\ date.minutes = given(5)
            /\ date.seconds = given(6)
            /\ date.ms = given(7)

====
